---- MODULE Spec2Model ----
(***************************************************************************)
(* Offline-first Git tracker (simple-git-express).                         *)
(*                                                                         *)
(* Two stores are modelled, as in the repository:                          *)
(*   - git_commits : the SQLite ledger drained by the delivery flow        *)
(*                   (SyncUnsyncedCommitsController);                      *)
(*   - gitData     : the Mongo collection written by the legacy extractor  *)
(*                   (GitLegacyServices.fetchCommits).                     *)
(* The session table (session.sqlite) is modelled with the foreground      *)
(* check, the scheduler and login that read and write it.                  *)
(* Every await of a handler is a point where other handlers may run, so    *)
(* each handler is split into one action per await-delimited step.         *)
(***************************************************************************)
EXTENDS Integers, Sequences, FiniteSets, Bags, TLC

\* ------------------------------------------------------------------ bounds
MaxCommits == 2
MaxClock == 2
MaxLines == 3

\* Two repositories are tracked: r1 with up to MaxCommits commits by the
\* configured author, r2 with a single one (enough to tell the scopes apart).
Repos == {"r1", "r2"}
Hashes == 1..MaxCommits
HashesOf(r) == IF r = "r1" THEN Hashes ELSE {1}
Keys == {k \in Repos \X Hashes : k[2] \in HashesOf(k[1])}

VARIABLES
  git_commits,   \* SQLite table git_commits: set of rows
  remoteCopies,  \* remote store: number of remote-visible copies per (repo, hash)
  acks,          \* history: times a key was part of an acknowledged payload (0, 1, 2 = twice or more)
  syncPc,        \* position of the delivery handler
  syncRepo,      \* req.params.repoId of the delivery in flight
  payload,       \* keys of the payload built from the unsynced set read
  syncResult,    \* last response of the delivery handler
  syncChanges,   \* the count markCommitsAsSynced returned to the handler
  repoStatus,    \* SQLite table repositories: status of each repository
  clock,         \* wall clock (new Date())
  history,       \* commits of the tracked git repository: [hash, date, mine]
  lastSyncedAt,  \* Repository.lastSyncedAt of the legacy repository document (0: unset)
  repoDocStatus, \* Repository.status of the legacy repository document
  gitData,       \* Mongo collection GitData: a bag of documents
  pc,            \* position of each fetchCommits call
  branchArg,     \* its branch argument ("" when absent)
  since,         \* repo.lastSyncedAt of the document it loaded
  log,           \* hashes of log.all it still has to process
  cur,           \* the commit it is about to save
  newCommits,    \* hashes of the documents it pushed to commits
  now,           \* its `now`
  fetchResult,   \* "none", "ok" or "error": how its last call ended
  startCount,    \* history: size of the git history when it loaded the repository
  prior,         \* history: the run that had last completed when it started
  lastDone       \* history: the run that completed last

syncVars == <<git_commits, remoteCopies, acks, syncPc, syncRepo, payload,
              syncResult, syncChanges>>

legacyVars == <<clock, history, lastSyncedAt, repoDocStatus, gitData, pc, branchArg, since,
                log, cur, newCommits, now, fetchResult, startCount, prior,
                lastDone>>

repoVars == <<repoStatus>>

VARIABLES
  session,       \* SQLite table session: set of rows
  cpc,           \* position of each session check (a foreground call, the scheduler)
  held,          \* the row it read
  newTok,        \* the access credential the refresh call answered with
  result,        \* how its last run ended
  returned,      \* the access credential its last run returned
  opRemote,      \* whether the controller that called it has called the remote since
  sentTok,       \* the credential in the Authorization header of that remote call
  refreshCalls,  \* refresh calls its current run has issued
  lpc,           \* position of simulateLogin
  lreq,          \* the credentials the login call answered with
  loginResult    \* how the last login ended

callVars == <<sentTok, refreshCalls>>

sessVars == <<session, cpc, held, newTok, result, returned, opRemote, lpc,
              lreq, loginResult, callVars>>

VARIABLES
  sweepPc,       \* position of CheckStatusController
  sweepList,     \* its localStatuses
  sweepIdx,      \* the element of localStatuses its loop is at
  successes,     \* its successes
  failures,      \* its failures
  sweepReport    \* the response it sent last

sweepVars == <<sweepPc, sweepList, sweepIdx, successes, failures, sweepReport>>

VARIABLES
  repoExists,    \* whether the Repository document is in its collection
  dpc,           \* position of the delete route
  deleteResult,  \* how the last delete request ended
  errorBranches, \* the branch names the message of each run's last error lists
  lastProbe,     \* what the last checkRepositoryStatus found at the path
  localRepos,    \* SQLite table repositories: the repoId of each row
  remoteRepos,   \* the remote listing the last comparison was handed
  comparison,    \* what the last comparison answered
  branchProbe,   \* what the last branch attribution was given
  commitBranch,  \* the branch it attributed the commit to
  diffLines,     \* the lines of the diff summary parsed last
  commitStats,   \* what parseDiffSummary returned for them
  regPc,         \* position of RegisterRepoController
  regExt,        \* the identifier the remote answered its registration with
  regResult,     \* how the last registration request ended
  remoteRegs,    \* the identifiers the remote has registered
  updPc,         \* position of UpdateRepositoryController
  updReq,        \* the repository and the name of its request
  updResult,     \* how the last update request ended
  localName,     \* SQLite table repositories: the name of each row
  remoteName     \* the name the remote holds for each repository

probeVars == <<lastProbe>>
compareVars == <<localRepos, remoteRepos, comparison>>
branchVars == <<branchProbe, commitBranch>>

errVars == <<errorBranches>>
deleteVars == <<repoExists, dpc, deleteResult>>
parseVars == <<diffLines, commitStats>>
registerVars == <<regPc, regExt, regResult, remoteRegs>>
updateVars == <<updPc, updReq, updResult, localName, remoteName>>

extraVars == <<sweepVars, probeVars, compareVars, branchVars, errVars, deleteVars, parseVars,
               registerVars, updateVars>>

\* what the actions of one part leave alone
notSync == <<repoVars, legacyVars, sessVars, extraVars>>
notLegacy == <<syncVars, repoVars, sessVars, extraVars>>
notRepo == <<syncVars, legacyVars, sessVars, extraVars>>
notSess == <<syncVars, repoVars, legacyVars, extraVars>>
notSweep == <<syncVars, legacyVars, sessVars, probeVars, compareVars, branchVars, errVars, deleteVars, parseVars,
  registerVars, updateVars>>
notProbe == <<syncVars, repoVars, sessVars, sweepVars, compareVars, branchVars, errVars, deleteVars, parseVars,
  registerVars, updateVars>>
notCompare == <<syncVars, repoVars, legacyVars, sessVars, sweepVars, probeVars, branchVars, errVars, deleteVars, parseVars,
  registerVars, updateVars>>
notFetchError == <<syncVars, repoVars, sessVars, sweepVars, probeVars, compareVars, branchVars, deleteVars, parseVars,
  registerVars, updateVars>>
notDelete == <<syncVars, repoVars, sessVars, sweepVars, probeVars, compareVars, branchVars, errVars, parseVars,
  registerVars, updateVars>>
notParse == <<syncVars, repoVars, legacyVars, sessVars, sweepVars, probeVars, compareVars, branchVars, errVars, deleteVars,
  registerVars, updateVars>>
notRegister == <<syncVars, repoVars, legacyVars, sessVars, sweepVars, probeVars, branchVars,
  errVars, deleteVars, parseVars, updateVars>>
notUpdate == <<syncVars, repoVars, legacyVars, sessVars, sweepVars, probeVars, compareVars,
  branchVars, errVars, deleteVars, parseVars, registerVars>>
notBranch == <<syncVars, repoVars, legacyVars, sessVars, sweepVars, probeVars, compareVars, errVars, deleteVars, parseVars,
  registerVars, updateVars>>


vars == <<git_commits, remoteCopies, acks, syncPc, syncRepo, payload,
          syncResult, syncChanges, repoStatus, repoDocStatus, clock, history, lastSyncedAt, gitData, pc,
          branchArg, since, log, cur, newCommits, now, fetchResult,
          startCount, prior, lastDone, sessVars, extraVars>>

\* ------------------------------------------------------------ the ledger
Row(r, h, s) == [repoId |-> r, commitHash |-> h, synced |-> s]

KeyOf(row) == <<row.repoId, row.commitHash>>

\* README "saves them to the local git_commits table with synced = 0"
NewCommitRow(r, h) == Row(r, h, 0)

\* unsyncedFor(scope): every row of the scope with synced = 0
getUnsyncedCommits(r) == {row \in git_commits : row.repoId = r /\ row.synced = 0}

\* markSynced(scope): every currently-unsynced row of the scope becomes synced
markCommitsAsSynced(r) ==
  {IF row.repoId = r /\ row.synced = 0 THEN [row EXCEPT !.synced = 1] ELSE row
     : row \in git_commits}

\* remote ingestion endpoint, idempotent on (repository, commit hash)
RemoteIngest(copies, ks) == [k \in Keys |-> IF k \in ks THEN 1 ELSE copies[k]]

Bump(a, ks) == [k \in Keys |-> IF k \in ks /\ a[k] < 2 THEN a[k] + 1 ELSE a[k]]

SyncedKeys == {KeyOf(row) : row \in {x \in git_commits : x.synced = 1}}
UnsyncedKeys == {KeyOf(row) : row \in {x \in git_commits : x.synced = 0}}
StoredKeys == {KeyOf(row) : row \in git_commits}

\* ------------------------------------------------- the legacy extractor
\* two fetchCommits calls may be in flight at once (two requests)
Statuses == {"active", "missing", "moved", "deleted"}

Procs == {"p1", "p2"}

\* the branches git branch -a lists
RepoBranches == {"main"}

\* branch arguments a caller passes: none, a branch of the repository, or a
\* name that is no branch of it
BranchArgs == {"", "main", "gone"}

\* a GitData document as fetchCommits builds it (synced: true)
GitDataDoc(h) == [repoId |-> "r1", commitHash |-> h, synced |-> TRUE]

\* number of GitData documents of the repository with this commit hash
DocsWithHash(coll, h) ==
  BagCardinality([d \in {x \in BagToSet(coll) : x.repoId = "r1" /\ x.commitHash = h}
                    |-> coll[d]])

\* mutant of existingCommit: the existence check finds nothing
existingCommit_NeverFound(h) == FALSE

\* GitDataModel.findOne({repoId, commitHash})
existingCommit(h) == DocsWithHash(gitData, h) > 0

LedgerHashes == {d.commitHash : d \in BagToSet(gitData)}

\* git log --stat --author=<user.name> --all [--since=<lastSyncedAt>]
GitLog(hist, s) ==
  {c.hash : c \in {x \in hist : x.mine /\ (s = 0 \/ x.date >= s)}}

\* log.all is newest first: the commit processed next
DateOf(h) == (CHOOSE c \in history : c.hash = h).date

NextOf(hs) ==
  CHOOSE h \in hs : \A o \in hs :
    DateOf(o) < DateOf(h) \/ (DateOf(o) = DateOf(h) /\ o <= h)

NoRun == [count |-> -1, docs |-> -1]

\* ------------------------------------------------------------ the session
\* The session table (session.sqlite), the foreground check
\* (checkAndRefreshSession), the background cadence (startScheduler) and
\* login (simulateLogin). The wall clock is `clock`; the remote issues
\* credentials that expire at a later time of its choosing, and its
\* introspection call (checkToken) answers with the credential's expiry.
Users == {"u1", "u2"}
Foreground == {"fg"}
Checkers == Foreground \cup {"bg"}
RemoteOps == {"register", "sweep", "compare", "view", "update", "sync"}

Tok(u, k, e) == [user |-> u, kind |-> k, exp |-> e]
NoTok == Tok("", "", 0)
Expiries == 2..(MaxClock + 1)

SessionRowOf(id, a, r) ==
  [id |-> id, accessToken |-> a, accessTokenExpiresAt |-> a.exp,
   refreshToken |-> r, refreshTokenExpiresAt |-> r.exp, userId |-> r.user]

NoRow ==
  [id |-> 0, accessToken |-> NoTok, accessTokenExpiresAt |-> 0,
   refreshToken |-> NoTok, refreshTokenExpiresAt |-> 0, userId |-> ""]

\* SELECT * FROM session WHERE id = 1
SelectSession ==
  IF \E r \in session : r.id = 1 THEN CHOOSE r \in session : r.id = 1 ELSE NoRow

\* UPDATE session SET accessToken = ?, accessTokenExpiresAt = ? WHERE id = 1
UpdateAccess(table, a, e) ==
  {IF r.id = 1 THEN [r EXCEPT !.accessToken = a, !.accessTokenExpiresAt = e]
   ELSE r : r \in table}

AccessExpired(s) == clock >= s.accessTokenExpiresAt
RefreshExpired(s) == clock >= s.refreshTokenExpiresAt

\* both credentials of the stored session are expired
FullyExpired ==
  /\ SelectSession # NoRow
  /\ AccessExpired(SelectSession)
  /\ RefreshExpired(SelectSession)

Granted(c) == c \in Foreground /\ result[c] \in {"valid", "refreshed"}

\* CheckStatusController: an element of localStatuses
SweepItem(r, st) == [repoId |-> r, status |-> st]

\* the lists checkAllLocalRepoStatuses answers with: the user's local
\* repositories, none, one or both, each with the status just probed
SweepLists ==
  {<<>>}
    \cup {<<SweepItem(r, st)>> : r \in Repos, st \in Statuses}
    \cup {<<SweepItem("r1", s1), SweepItem("r2", s2)>> : s1, s2 \in Statuses}

\* CheckStatusController: no response sent yet
NoReport ==
  [kind |-> "none", allSucceeded |-> FALSE, totalChecked |-> 0,
   totalSuccess |-> 0, totalFailed |-> 0, successes |-> <<>>, failures |-> <<>>]

\* checkRepositoryStatus: what fs.access and git rev-parse meet at the path,
\* and whether the repository there is the one that was registered
Probes ==
  [access : {"ok", "ENOENT", "EACCES"},
   git : {"work tree", "not a git repository", "other error"},
   sameRepo : BOOLEAN]

NoProbe == [access |-> "", git |-> "", sameRepo |-> FALSE]

\* external identifiers the remote assigns
ExtIds == {"e1", "e2", "e3"}

NoComparison ==
  [done |-> FALSE, synced |-> {}, missing_local |-> {}, missing_remote |-> {}]

\* local branch names, and the listings of git branch --contains: the
\* branches that contain the commit, in the order git lists them
Branches == {"dev", "main", "topic"}
Listings ==
  {<<>>, <<"dev">>, <<"main">>, <<"topic">>, <<"dev", "main">>,
   <<"dev", "topic">>, <<"main", "topic">>, <<"dev", "main", "topic">>}

\* fetchCommits: the branch argument ("" when absent), the listing, and the
\* branch that is checked out ("" when HEAD is detached)
BranchProbes == [arg : Branches \cup {""}, all : Listings, current : Branches \cup {""}]

\* UpdateRepositoryController: no request yet
NoUpdate == [repoId |-> "", name |-> ""]

\* commitStats before any parse
NoStats == [filesChanged |-> 0 - 1, insertions |-> 0, deletions |-> 0, fileNames |-> <<>>]

NoBranchProbe == [arg |-> "", all |-> <<>>, current |-> "none"]

\* simulateLogin: no login call answered yet
NoLogin == [access |-> NoTok, refresh |-> NoTok]

\* ---------------------------------------------------- the initial state
Init ==
  /\ git_commits = {}
  /\ remoteCopies = [k \in Keys |-> 0]
  /\ acks = [k \in Keys |-> 0]
  /\ syncPc = "idle"
  /\ syncRepo = "r1"
  /\ payload = {}
  /\ syncResult = "none"
  /\ syncChanges = 0
  /\ repoStatus = [r \in Repos |-> "active"]
  /\ clock = 1
  /\ history = {}
  /\ lastSyncedAt = 0
  /\ repoDocStatus = "active"
  /\ gitData = EmptyBag
  /\ pc = [p \in Procs |-> "idle"]
  /\ branchArg = [p \in Procs |-> ""]
  /\ since = [p \in Procs |-> 0]
  /\ log = [p \in Procs |-> {}]
  /\ cur = [p \in Procs |-> 0]
  /\ newCommits = [p \in Procs |-> {}]
  /\ now = [p \in Procs |-> 0]
  /\ fetchResult = [p \in Procs |-> "none"]
  /\ startCount = [p \in Procs |-> 0]
  /\ prior = [p \in Procs |-> NoRun]
  /\ lastDone = NoRun
  /\ session = {}
  /\ cpc = [c \in Checkers |-> "idle"]
  /\ held = [c \in Checkers |-> NoRow]
  /\ newTok = [c \in Checkers |-> NoTok]
  /\ result = [c \in Checkers |-> "none"]
  /\ returned = [c \in Checkers |-> NoTok]
  /\ opRemote = [c \in Checkers |-> FALSE]
  /\ sentTok = [c \in Checkers |-> NoTok]
  /\ refreshCalls = [c \in Checkers |-> 0]
  /\ lpc = "idle"
  /\ lreq = NoLogin
  /\ loginResult = "none"
  /\ sweepPc = "idle"
  /\ sweepList = <<>>
  /\ sweepIdx = 0
  /\ successes = <<>>
  /\ failures = <<>>
  /\ sweepReport = NoReport
  /\ repoExists = TRUE
  /\ dpc = "idle"
  /\ deleteResult = "none"
  /\ errorBranches = [p \in Procs |-> {}]
  /\ lastProbe = NoProbe
  /\ localRepos = {}
  /\ remoteRepos = {}
  /\ comparison = NoComparison
  /\ branchProbe = NoBranchProbe
  /\ commitBranch = ""
  /\ diffLines = <<>>
  /\ commitStats = NoStats
  /\ regPc = "idle"
  /\ regExt = ""
  /\ regResult = "none"
  /\ remoteRegs = {}
  /\ updPc = "idle"
  /\ updReq = NoUpdate
  /\ updResult = "none"
  /\ localName = [r \in Repos |-> "n0"]
  /\ remoteName = [r \in Repos |-> "n0"]

\* -------------------------------------------- fetchCommits, step by step
\* mutant of FetchBegin: the probed status is saved but not looked at
FetchBegin_IgnoresStatus(p, b, st) ==
  /\ pc[p] = "idle"
  /\ repoDocStatus' = st
  /\ pc' = [pc EXCEPT ![p] = "log"]
  /\ branchArg' = [branchArg EXCEPT ![p] = b]
  /\ since' = [since EXCEPT ![p] = lastSyncedAt]
  /\ fetchResult' = [fetchResult EXCEPT ![p] = "none"]
  /\ startCount' = [startCount EXCEPT ![p] = Cardinality(history)]
  /\ prior' = [prior EXCEPT ![p] = lastDone]
  /\ log' = [log EXCEPT ![p] = {}]
  /\ cur' = [cur EXCEPT ![p] = 0]
  /\ newCommits' = [newCommits EXCEPT ![p] = {}]
  /\ now' = [now EXCEPT ![p] = 0]
  /\ UNCHANGED <<clock, history, lastSyncedAt, gitData, lastDone>>
  /\ UNCHANGED notLegacy

\* lines 98-107: the repository document is loaded (a call for a repository
\* that is not there throws) and checkRepositoryStatus probes the path (st
\* is what the probe finds) and saves the status; a status other than active
\* makes the call throw
FetchBegin(p, b, st) ==
  /\ pc[p] = "idle"
  /\ repoDocStatus' = IF repoExists THEN st ELSE repoDocStatus
  /\ IF repoExists /\ st = "active"
       THEN /\ pc' = [pc EXCEPT ![p] = "log"]
            /\ branchArg' = [branchArg EXCEPT ![p] = b]
            /\ since' = [since EXCEPT ![p] = lastSyncedAt]
            /\ fetchResult' = [fetchResult EXCEPT ![p] = "none"]
            /\ startCount' = [startCount EXCEPT ![p] = Cardinality(history)]
            /\ prior' = [prior EXCEPT ![p] = lastDone]
       ELSE /\ fetchResult' = [fetchResult EXCEPT ![p] =
                                 IF repoExists THEN "not active" ELSE "not found"]
            /\ UNCHANGED <<pc, branchArg, since, startCount, prior>>
  /\ log' = [log EXCEPT ![p] = {}]
  /\ cur' = [cur EXCEPT ![p] = 0]
  /\ newCommits' = [newCommits EXCEPT ![p] = {}]
  /\ now' = [now EXCEPT ![p] = 0]
  /\ UNCHANGED <<clock, history, lastSyncedAt, gitData, lastDone>>
  /\ UNCHANGED notLegacy

\* lines 108-142: the log arguments are built and git log runs. A branch
\* argument that git branch -a does not list throws 'Branch <name> does not
\* exist in repository <id>' (:116-130); the branches there are go to the
\* log (:126), not to the message. With a branch that exists logArgs holds
\* the literal "branch=<name>", which git log rejects as an unknown
\* revision: the call throws.
FetchLog(p) ==
  /\ pc[p] = "log"
  /\ IF branchArg[p] # ""
       THEN /\ pc' = [pc EXCEPT ![p] = "idle"]
            /\ fetchResult' = [fetchResult EXCEPT ![p] =
                                 IF branchArg[p] \in RepoBranches THEN "error"
                                 ELSE "branch not found"]
            /\ errorBranches' = [errorBranches EXCEPT ![p] = {}]
            /\ since' = [since EXCEPT ![p] = 0]
            /\ startCount' = [startCount EXCEPT ![p] = 0]
            /\ prior' = [prior EXCEPT ![p] = NoRun]
            /\ branchArg' = [branchArg EXCEPT ![p] = ""]
            /\ UNCHANGED log
       ELSE /\ pc' = [pc EXCEPT ![p] = "loop"]
            /\ log' = [log EXCEPT ![p] = GitLog(history, since[p])]
            /\ UNCHANGED <<repoDocStatus, fetchResult, since, startCount, prior, branchArg,
                           errorBranches>>
  /\ UNCHANGED <<repoDocStatus, clock, history, lastSyncedAt, gitData, cur, newCommits, now,
                 lastDone>>
  /\ UNCHANGED notFetchError

\* lines 145-153: findOne for the next commit of log.all; an existing one is skipped
FetchCheck(p) ==
  /\ pc[p] = "loop"
  /\ log[p] # {}
  /\ LET h == NextOf(log[p]) IN
       IF existingCommit(h)
         THEN /\ log' = [log EXCEPT ![p] = log[p] \ {h}]
              /\ UNCHANGED <<repoDocStatus, pc, cur>>
         ELSE /\ cur' = [cur EXCEPT ![p] = h]
              /\ pc' = [pc EXCEPT ![p] = "save"]
              /\ UNCHANGED log
  /\ UNCHANGED <<repoDocStatus, clock, history, lastSyncedAt, gitData, branchArg, since,
                 newCommits, now, fetchResult, startCount, prior, lastDone>>
  /\ UNCHANGED notLegacy

\* lines 155-186: the document is built and saved, then pushed to commits
FetchSave(p) ==
  /\ pc[p] = "save"
  /\ gitData' = gitData (+) SetToBag({GitDataDoc(cur[p])})
  /\ newCommits' = [newCommits EXCEPT ![p] = newCommits[p] \cup {cur[p]}]
  /\ log' = [log EXCEPT ![p] = log[p] \ {cur[p]}]
  /\ cur' = [cur EXCEPT ![p] = 0]
  /\ pc' = [pc EXCEPT ![p] = "loop"]
  /\ UNCHANGED <<repoDocStatus, clock, history, lastSyncedAt, branchArg, since, now,
                 fetchResult, startCount, prior, lastDone>>
  /\ UNCHANGED notLegacy

\* the timestamp of the latest commit a run stored (its start watermark if none)
LatestDate(hs, dflt) ==
  IF hs = {} THEN dflt
  ELSE CHOOSE d \in {DateOf(h) : h \in hs} : \A h \in hs : DateOf(h) <= d

\* mutant of FetchNow: now is the timestamp of the latest commit stored
FetchNow_LatestCommit(p) ==
  /\ pc[p] = "loop"
  /\ log[p] = {}
  /\ now' = [now EXCEPT ![p] = LatestDate(newCommits[p], since[p])]
  /\ pc' = [pc EXCEPT ![p] = "finish"]
  /\ UNCHANGED <<repoDocStatus, clock, history, lastSyncedAt, gitData, branchArg, since, log,
                 cur, newCommits, fetchResult, startCount, prior, lastDone>>
  /\ UNCHANGED notLegacy

\* lines 188-197: the loop is over, now = new Date(), the documents are read back
FetchNow(p) ==
  /\ pc[p] = "loop"
  /\ log[p] = {}
  /\ now' = [now EXCEPT ![p] = clock]
  /\ pc' = [pc EXCEPT ![p] = "finish"]
  /\ UNCHANGED <<repoDocStatus, clock, history, lastSyncedAt, gitData, branchArg, since, log,
                 cur, newCommits, fetchResult, startCount, prior, lastDone>>
  /\ UNCHANGED notLegacy

\* lines 199-212: repo.lastSyncedAt = now, repo.save(), the result is returned
\* (newCommits[p] in the state before this step is the newCommits returned);
\* the save of a document that is no longer in the collection throws
FetchFinish(p) ==
  /\ pc[p] = "finish"
  \* the save of a document that was deleted meanwhile is FetchFinishGone
  /\ repoExists
  /\ lastSyncedAt' = now[p]
  /\ pc' = [pc EXCEPT ![p] = "idle"]
  /\ fetchResult' = [fetchResult EXCEPT ![p] = "ok"]
  /\ lastDone' = [count |-> startCount[p], docs |-> BagCardinality(gitData)]
  /\ since' = [since EXCEPT ![p] = 0]
  /\ now' = [now EXCEPT ![p] = 0]
  /\ startCount' = [startCount EXCEPT ![p] = 0]
  /\ prior' = [prior EXCEPT ![p] = NoRun]
  /\ newCommits' = [newCommits EXCEPT ![p] = {}]
  /\ UNCHANGED <<repoDocStatus, clock, history, gitData, branchArg, log, cur>>
  /\ UNCHANGED notLegacy

\* mutant of FetchCommitFail: the failing run stores its time as the watermark
\* lines 202-203 after the repository document was deleted: repo.save() of a
\* document that is no longer in the collection stores nothing; depending on
\* the driver it throws (the catch block rethrows) or resolves
FetchFinishGone(p) ==
  /\ pc[p] = "finish"
  /\ ~repoExists
  /\ pc' = [pc EXCEPT ![p] = "idle"]
  /\ \E r \in {"ok", "error"} : fetchResult' = [fetchResult EXCEPT ![p] = r]
  /\ since' = [since EXCEPT ![p] = 0]
  /\ now' = [now EXCEPT ![p] = 0]
  /\ startCount' = [startCount EXCEPT ![p] = 0]
  /\ prior' = [prior EXCEPT ![p] = NoRun]
  /\ newCommits' = [newCommits EXCEPT ![p] = {}]
  /\ UNCHANGED <<repoDocStatus, clock, history, lastSyncedAt, gitData, branchArg,
                 log, cur, lastDone>>
  /\ UNCHANGED notLegacy

FetchCommitFail_AdvancesWatermark(p) ==
  /\ \/ pc[p] = "loop" /\ log[p] # {}
     \/ pc[p] = "save"
  /\ lastSyncedAt' = clock
  /\ pc' = [pc EXCEPT ![p] = "idle"]
  /\ fetchResult' = [fetchResult EXCEPT ![p] = "error"]
  /\ log' = [log EXCEPT ![p] = {}]
  /\ cur' = [cur EXCEPT ![p] = 0]
  /\ newCommits' = [newCommits EXCEPT ![p] = {}]
  /\ now' = [now EXCEPT ![p] = 0]
  /\ since' = [since EXCEPT ![p] = 0]
  /\ startCount' = [startCount EXCEPT ![p] = 0]
  /\ prior' = [prior EXCEPT ![p] = NoRun]
  /\ UNCHANGED <<repoDocStatus, clock, history, gitData, branchArg, lastDone>>
  /\ UNCHANGED notLegacy

\* lines 145-187, 213-216: a call of the loop (findOne, git show, git branch,
\* save) throws; the catch block rethrows. The documents saved so far stay,
\* repo.lastSyncedAt is not saved
FetchCommitFail(p) ==
  /\ \/ pc[p] = "loop" /\ log[p] # {}
     \/ pc[p] = "save"
  /\ pc' = [pc EXCEPT ![p] = "idle"]
  /\ fetchResult' = [fetchResult EXCEPT ![p] = "error"]
  /\ log' = [log EXCEPT ![p] = {}]
  /\ cur' = [cur EXCEPT ![p] = 0]
  /\ newCommits' = [newCommits EXCEPT ![p] = {}]
  /\ now' = [now EXCEPT ![p] = 0]
  /\ since' = [since EXCEPT ![p] = 0]
  /\ startCount' = [startCount EXCEPT ![p] = 0]
  /\ prior' = [prior EXCEPT ![p] = NoRun]
  /\ UNCHANGED <<repoDocStatus, clock, history, lastSyncedAt, gitData, branchArg, lastDone>>
  /\ UNCHANGED notLegacy

\* ------------------------------------------------------- the environment
\* time passes
Tick ==
  /\ clock < MaxClock
  /\ clock' = clock + 1
  /\ UNCHANGED <<repoDocStatus, history, lastSyncedAt, gitData, pc, branchArg, since, log,
                 cur, newCommits, now, fetchResult, startCount, prior, lastDone>>
  /\ UNCHANGED notLegacy

\* a commit enters the repository's history (git commit, pull, merge): its
\* timestamp is the present or earlier, its author the configured one or not
GitCommit(h, d, m) ==
  /\ h \notin {c.hash : c \in history}
  /\ d <= clock
  /\ history' = history \cup {[hash |-> h, date |-> d, mine |-> m]}
  /\ UNCHANGED <<repoDocStatus, clock, lastSyncedAt, gitData, pc, branchArg, since, log, cur,
                 newCommits, now, fetchResult, startCount, prior, lastDone>>
  /\ UNCHANGED notLegacy

FetchStep(p) ==
  \/ \E b \in BranchArgs, st \in Statuses : FetchBegin(p, b, st)
  \/ FetchLog(p)
  \/ FetchCheck(p)
  \/ FetchSave(p)
  \/ FetchNow(p)
  \/ FetchFinish(p)

EnvStep ==
  \/ Tick
  \/ \E h \in Hashes, d \in 1..MaxClock, m \in BOOLEAN : GitCommit(h, d, m)

\* ------------------------------------ DELETE /repositories/:id, by step
\* part_001 lines 254-266: the documents of the repository are looked for
\* and, when there are some, the next call is deleteMany
DeleteFind ==
  /\ dpc = "idle"
  /\ dpc' = IF gitData # EmptyBag THEN "many" ELSE "repo"
  /\ deleteResult' = "none"
  /\ UNCHANGED repoExists
  /\ UNCHANGED legacyVars
  /\ UNCHANGED notDelete

\* line 265: GitDataModel.deleteMany({ repoId })
DeleteMany ==
  /\ dpc = "many"
  /\ gitData' = EmptyBag
  /\ dpc' = "repo"
  /\ UNCHANGED <<repoExists, deleteResult>>
  /\ UNCHANGED <<clock, history, lastSyncedAt, repoDocStatus, pc, branchArg, since,
                 log, cur, newCommits, now, fetchResult, startCount, prior, lastDone>>
  /\ UNCHANGED notDelete

\* lines 269-274: RepositoryModel.findByIdAndDelete; 404 when it is not there
DeleteRepo ==
  /\ dpc = "repo"
  /\ dpc' = "idle"
  /\ repoExists' = FALSE
  /\ deleteResult' = IF repoExists THEN "deleted" ELSE "not found"
  /\ UNCHANGED legacyVars
  /\ UNCHANGED notDelete

DeleteRoute ==
  \/ DeleteFind
  \/ DeleteMany
  \/ DeleteRepo

\* one extraction request at a time, and a delete request
DeleteNext ==
  \/ FetchStep("p1")
  \/ FetchCommitFail("p1")
  \/ FetchFinishGone("p1")
  \/ EnvStep
  \/ DeleteRoute

DeleteSpec == Init /\ [][DeleteNext]_vars

\* requests may overlap
LegacyNext ==
  \/ \E p \in Procs : FetchStep(p)
  \/ EnvStep

LegacySpec == Init /\ [][LegacyNext]_vars

\* one request at a time
LegacySeqNext ==
  \/ FetchStep("p1")
  \/ FetchCommitFail("p1")
  \/ EnvStep

LegacySeq == Init /\ [][LegacySeqNext]_vars

\* --------------------------------------------------- extraction (SQLite)
\* ExtractCommitController -> GitServices.extractNewCommits: one new commit
\* row is written per step; a commit already present in the scope is skipped.
upsertCommit(r, h) ==
  /\ <<r, h>> \notin StoredKeys
  /\ git_commits' = git_commits \cup {NewCommitRow(r, h)}
  /\ UNCHANGED <<remoteCopies, acks, syncPc, syncRepo, payload, syncResult,
                 syncChanges>>
  /\ UNCHANGED notSync

\* ------------------------------------------------------ the delivery flow
\* step 1: checkAndRefreshSession() returned a session
SyncStartOk(r) ==
  /\ syncPc = "idle"
  /\ syncPc' = "read"
  /\ syncRepo' = r
  /\ payload' = {}
  /\ syncResult' = "none"
  /\ syncChanges' = 0
  /\ UNCHANGED <<git_commits, remoteCopies, acks>>
  /\ UNCHANGED notSync

\* step 1: checkAndRefreshSession() threw; the catch block answers with the error
SyncSessionFail(r) ==
  /\ syncPc = "idle"
  /\ syncRepo' = r
  /\ payload' = {}
  /\ syncResult' = "error"
  /\ syncChanges' = 0
  /\ UNCHANGED <<git_commits, remoteCopies, acks, syncPc>>
  /\ UNCHANGED notSync

\* mutant of SyncRead: the rows are marked synced when they are read, before
\* the remote call (deliver-after-mark)
SyncRead_MarksAtRead ==
  /\ syncPc = "read"
  /\ LET unsyncedCommits == getUnsyncedCommits(syncRepo) IN
       IF unsyncedCommits = {}
         THEN /\ syncPc' = "idle"
              /\ syncResult' = "in_sync"
              /\ payload' = {}
         ELSE /\ syncPc' = "post"
              /\ payload' = {KeyOf(row) : row \in unsyncedCommits}
              /\ UNCHANGED syncResult
  /\ git_commits' = markCommitsAsSynced(syncRepo)
  /\ UNCHANGED <<remoteCopies, acks, syncRepo, syncChanges>>
  /\ UNCHANGED notSync

\* steps 2-4: read the unsynced set, answer "already in sync" or build the payload
SyncRead ==
  /\ syncPc = "read"
  /\ LET unsyncedCommits == getUnsyncedCommits(syncRepo) IN
       IF unsyncedCommits = {}
         THEN /\ syncPc' = "idle"
              /\ syncResult' = "in_sync"
              /\ payload' = {}
         ELSE /\ syncPc' = "post"
              /\ payload' = {KeyOf(row) : row \in unsyncedCommits}
              /\ UNCHANGED syncResult
  /\ UNCHANGED <<git_commits, remoteCopies, acks, syncRepo, syncChanges>>
  /\ UNCHANGED notSync

\* step 5: backendApi.post resolved (2xx)
SyncPostOk ==
  /\ syncPc = "post"
  /\ remoteCopies' = RemoteIngest(remoteCopies, payload)
  /\ acks' = Bump(acks, payload)
  /\ syncPc' = "mark"
  /\ UNCHANGED <<git_commits, syncRepo, payload, syncResult, syncChanges>>
  /\ UNCHANGED notSync

\* mutant of SyncPostFail: the mark is done although the remote call failed
SyncPostFail_MarksAnyway ==
  /\ syncPc = "post"
  /\ UNCHANGED remoteCopies
  /\ git_commits' = markCommitsAsSynced(syncRepo)
  /\ syncPc' = "idle"
  /\ syncResult' = "error"
  /\ payload' = {}
  /\ UNCHANGED <<acks, syncRepo, syncChanges>>
  /\ UNCHANGED notSync

\* mutant of SyncPostFail: the catch block puts the whole scope back to unsynced
SyncPostFail_ResetsScope ==
  /\ syncPc = "post"
  /\ UNCHANGED remoteCopies
  /\ git_commits' = {IF row.repoId = syncRepo THEN [row EXCEPT !.synced = 0] ELSE row
                       : row \in git_commits}
  /\ syncPc' = "idle"
  /\ syncResult' = "error"
  /\ payload' = {}
  /\ UNCHANGED <<acks, syncRepo, syncChanges>>
  /\ UNCHANGED notSync

\* step 5 rejected (error response, unreachable, timeout): the catch block
\* answers with the error. The remote may or may not have applied the batch.
SyncPostFail ==
  /\ syncPc = "post"
  /\ \E applied \in BOOLEAN :
       remoteCopies' = IF applied THEN RemoteIngest(remoteCopies, payload)
                                  ELSE remoteCopies
  /\ syncPc' = "idle"
  /\ syncResult' = "error"
  /\ payload' = {}
  /\ UNCHANGED <<git_commits, acks, syncRepo, syncChanges>>
  /\ UNCHANGED notSync

\* mutant of SyncMark: success is answered without the mark being applied
SyncMark_SkipsMark ==
  /\ syncPc = "mark"
  /\ syncChanges' = 0
  /\ syncResult' = "success"
  /\ syncPc' = "idle"
  /\ UNCHANGED <<git_commits, remoteCopies, acks, syncRepo, payload>>
  /\ UNCHANGED notSync

\* mutant of SyncMark: only the first row of the scope is marked
SyncMark_MarksOne ==
  /\ syncPc = "mark"
  /\ LET u == getUnsyncedCommits(syncRepo)
         first == IF u = {} THEN {} ELSE {CHOOSE row \in u : \A o \in u : row.commitHash <= o.commitHash}
     IN /\ git_commits' = (git_commits \ first) \cup {[row EXCEPT !.synced = 1] : row \in first}
        /\ syncChanges' = Cardinality(first)
  /\ syncResult' = "success"
  /\ syncPc' = "idle"
  /\ UNCHANGED <<remoteCopies, acks, syncRepo, payload>>
  /\ UNCHANGED notSync

\* steps 6-7: markCommitsAsSynced(repoId, userId), then the success response
SyncMark ==
  /\ syncPc = "mark"
  /\ git_commits' = markCommitsAsSynced(syncRepo)
  /\ syncChanges' = Cardinality(getUnsyncedCommits(syncRepo))
  /\ syncResult' = "success"
  /\ syncPc' = "idle"
  /\ UNCHANGED <<remoteCopies, acks, syncRepo, payload>>
  /\ UNCHANGED notSync

\* the process dies while a delivery is in flight and is restarted: the
\* handler's locals are lost, both stores keep what they held
Crash ==
  /\ syncPc # "idle"
  /\ syncPc' = "idle"
  /\ payload' = {}
  /\ syncResult' = "none"
  /\ syncChanges' = 0
  /\ UNCHANGED <<git_commits, remoteCopies, acks, syncRepo>>
  /\ UNCHANGED notSync

SyncNext ==
  \/ \E k \in Keys : upsertCommit(k[1], k[2])
  \/ \E r \in Repos : SyncStartOk(r)
  \/ \E r \in Repos : SyncSessionFail(r)
  \/ SyncRead
  \/ SyncPostOk
  \/ SyncPostFail
  \/ SyncMark
  \/ Crash

SyncSpec == Init /\ [][SyncNext]_vars

\* ------------------------------------------------------ status operations
\* GitServices.updateLocalRepoStatus(id, status)
updateLocalRepoStatus(r, st) == [repoStatus EXCEPT ![r] = st]

\* CheckStatusController, one repository of the sweep: the remote patch
\* succeeded and the probed status is stored locally
SweepUpdateOne(r, st) ==
  /\ repoStatus' = updateLocalRepoStatus(r, st)
  /\ UNCHANGED notRepo

\* ----------------------------------- CheckStatusController, step by step
\* lines 235-242: the aggregated report
SweepReportOf(list, succ, fail) ==
  [kind |-> "report", allSucceeded |-> (Len(fail) = 0), totalChecked |-> Len(list),
   totalSuccess |-> Len(succ), totalFailed |-> Len(fail),
   successes |-> succ, failures |-> fail]

\* lines 244-252: the outer catch block answers 500
SweepFatal == [NoReport EXCEPT !.kind = "fatal"]

\* lines 194-196: nothing to check
SweepNothing == [NoReport EXCEPT !.kind = "empty"]

\* lines 200, 233-242: the loop goes on to the next element, or the report
\* is sent after the last one
SweepGoOn(succ, fail) ==
  /\ successes' = succ
  /\ failures' = fail
  /\ IF sweepIdx < Len(sweepList)
       THEN /\ sweepIdx' = sweepIdx + 1
            /\ sweepPc' = "patch"
            /\ UNCHANGED sweepReport
       ELSE /\ sweepPc' = "idle"
            /\ sweepReport' = SweepReportOf(sweepList, succ, fail)
            /\ UNCHANGED sweepIdx
  /\ UNCHANGED sweepList

\* lines 184-189: a request arrives and checkAndRefreshSession() returns a session
SweepStartOk ==
  /\ sweepPc = "idle"
  /\ sweepPc' = "probe"
  /\ sweepList' = <<>>
  /\ sweepIdx' = 0
  /\ successes' = <<>>
  /\ failures' = <<>>
  /\ sweepReport' = NoReport
  /\ UNCHANGED <<repoStatus, notSweep>>

\* lines 184-189, 244-252: checkAndRefreshSession() throws
SweepSessionFail ==
  /\ sweepPc = "idle"
  /\ sweepList' = <<>>
  /\ sweepIdx' = 0
  /\ successes' = <<>>
  /\ failures' = <<>>
  /\ sweepReport' = SweepFatal
  /\ UNCHANGED <<sweepPc, repoStatus, notSweep>>

\* lines 192-196: checkAllLocalRepoStatuses answers with the list
SweepProbeOk(list) ==
  /\ sweepPc = "probe"
  /\ IF Len(list) = 0
       THEN /\ sweepPc' = "idle"
            /\ sweepReport' = SweepNothing
            /\ UNCHANGED <<sweepList, sweepIdx>>
       ELSE /\ sweepPc' = "patch"
            /\ sweepList' = list
            /\ sweepIdx' = 1
            /\ UNCHANGED sweepReport
  /\ UNCHANGED <<successes, failures, repoStatus, notSweep>>

\* lines 192, 244-252: checkAllLocalRepoStatuses throws; the call is inside
\* the outer try block only
SweepProbeFail ==
  /\ sweepPc = "probe"
  /\ sweepPc' = "idle"
  /\ sweepReport' = SweepFatal
  /\ UNCHANGED <<sweepList, sweepIdx, successes, failures, repoStatus, notSweep>>

\* lines 206-210: the remote accepts the patch
SweepPatchOk ==
  /\ sweepPc = "patch"
  /\ sweepPc' = "local"
  /\ UNCHANGED <<sweepList, sweepIdx, successes, failures, sweepReport, repoStatus, notSweep>>

\* mutant of SweepPatchFail: the failure of one patch ends the request
SweepPatchFail_Aborts ==
  /\ sweepPc = "patch"
  /\ sweepPc' = "idle"
  /\ sweepReport' = SweepFatal
  /\ UNCHANGED <<sweepList, sweepIdx, successes, failures, repoStatus, notSweep>>

\* lines 206-210, 222-231: the patch fails; the inner catch block pushes the
\* repository to failures
SweepPatchFail ==
  /\ sweepPc = "patch"
  /\ SweepGoOn(successes, Append(failures, sweepList[sweepIdx].repoId))
  /\ UNCHANGED <<repoStatus, notSweep>>

\* lines 213-220: the local row is updated and the repository is pushed to
\* successes
SweepLocalOk ==
  /\ sweepPc = "local"
  /\ repoStatus' = updateLocalRepoStatus(sweepList[sweepIdx].repoId,
                                         sweepList[sweepIdx].status)
  /\ SweepGoOn(Append(successes, sweepList[sweepIdx].repoId), failures)
  /\ UNCHANGED notSweep

\* lines 213, 222-231: updateLocalRepoStatus throws after the remote accepted
\* the patch
SweepLocalFail ==
  /\ sweepPc = "local"
  /\ SweepGoOn(successes, Append(failures, sweepList[sweepIdx].repoId))
  /\ UNCHANGED <<repoStatus, notSweep>>

CheckStatusController ==
  \/ SweepStartOk
  \/ SweepSessionFail
  \/ \E list \in SweepLists : SweepProbeOk(list)
  \/ SweepProbeFail
  \/ SweepPatchOk
  \/ SweepPatchFail
  \/ SweepLocalOk
  \/ SweepLocalFail

SweepSpec == Init /\ [][CheckStatusController]_vars

\* ------------------------------------------------ checkRepositoryStatus
\* lines 64-77: the status the probe's outcome is mapped to
ProbeStatus(pr) ==
  IF pr.access = "ENOENT" THEN "missing"
  ELSE IF pr.access # "ok" THEN "moved"
  ELSE IF pr.git = "work tree" THEN "active"
  ELSE IF pr.git = "not a git repository" THEN "deleted"
  ELSE "moved"

\* lines 55-88: the path is probed and the status is saved with the document
StatusCheck(pr) ==
  /\ repoDocStatus' = ProbeStatus(pr)
  /\ lastProbe' = pr
  /\ UNCHANGED <<clock, history, lastSyncedAt, gitData, pc, branchArg, since, log,
                 cur, newCommits, now, fetchResult, startCount, prior, lastDone>>
  /\ UNCHANGED notProbe

\* the status route, commits being made and time passing
ProbeNext ==
  \/ \E pr \in Probes : StatusCheck(pr)
  \/ EnvStep

ProbeSpec == Init /\ [][ProbeNext]_vars

\* ------------------------------------------------- branch attribution
\* fetchCommits, lines 157-165: the branch argument when there is one;
\* otherwise the first branch git branch --contains lists, or 'unknown'
AttributedBranch(bp) ==
  IF bp.arg # "" THEN bp.arg
  ELSE IF Len(bp.all) > 0 THEN bp.all[1]
  ELSE "unknown"

AttributeBranch(bp) ==
  /\ branchProbe' = bp
  /\ commitBranch' = AttributedBranch(bp)
  /\ UNCHANGED notBranch

BranchNext == \E bp \in BranchProbes : AttributeBranch(bp)

BranchSpec == Init /\ [][BranchNext]_vars

\* ------------------------------------------------- the comparison
\* GitServices.compareRepositories: each repository of either side in the
\* class its presence on the two sides gives it
compareRepositories(local, remote) ==
  [done |-> TRUE,
   synced |-> local \cap remote,
   missing_local |-> remote \ local,
   missing_remote |-> local \ remote]

\* RegisterRepoController, lines 113-123: the row is inserted with the
\* identifier the remote assigned (repoId is UNIQUE)
RegisterLocalInsert(e) ==
  /\ e \notin localRepos
  /\ localRepos' = localRepos \cup {e}
  /\ UNCHANGED <<remoteRepos, comparison>>
  /\ UNCHANGED notCompare

\* mutant of CompareRepositoriesOk: the listing is not handed on
CompareRepositoriesOk_DropsListing(remote) ==
  /\ remoteRepos' = remote
  /\ comparison' = compareRepositories(localRepos, {})
  /\ UNCHANGED localRepos
  /\ UNCHANGED notCompare

\* CompareRepositoriesController, lines 256-274: the remote answers with its
\* listing and the comparison of it with the local rows is sent back
CompareRepositoriesOk(remote) ==
  /\ remoteRepos' = remote
  /\ comparison' = compareRepositories(localRepos, remote)
  /\ UNCHANGED localRepos
  /\ UNCHANGED notCompare

ReconcileNext ==
  \/ \E e \in ExtIds : RegisterLocalInsert(e)
  \/ \E remote \in SUBSET ExtIds : CompareRepositoriesOk(remote)

ReconcileSpec == Init /\ [][ReconcileNext]_vars

\* ------------------------------------ RegisterRepoController, step by step
\* line 84: checkAndRefreshSession() resolves
RegStartOk ==
  /\ regPc = "idle"
  /\ regPc' = "validate"
  /\ regExt' = ""
  /\ regResult' = "none"
  /\ UNCHANGED <<remoteRegs, compareVars, notRegister>>

\* lines 84, 132-139: checkAndRefreshSession() throws
RegSessionFail ==
  /\ regPc = "idle"
  /\ regExt' = ""
  /\ regResult' = "session failed"
  /\ UNCHANGED <<regPc, remoteRegs, compareVars, notRegister>>

\* lines 89-90: validateLocalRepository(path) answers with the fingerprint
RegValidateOk ==
  /\ regPc = "validate"
  /\ regPc' = "post"
  /\ UNCHANGED <<regExt, regResult, remoteRegs, compareVars, notRegister>>

\* lines 89, 132-139: validateLocalRepository(path) throws
RegValidateFail ==
  /\ regPc = "validate"
  /\ regPc' = "idle"
  /\ regResult' = "invalid"
  /\ UNCHANGED <<regExt, remoteRegs, compareVars, notRegister>>

\* lines 102-111: the remote registers the repository under an identifier
\* of its choosing and answers with it
RegPostOk(e) ==
  /\ regPc = "post"
  /\ e \notin remoteRegs
  /\ remoteRegs' = remoteRegs \cup {e}
  /\ regExt' = e
  /\ regPc' = "insert"
  /\ UNCHANGED <<regResult, compareVars, notRegister>>

\* lines 102-111, 132-139: the remote refuses the registration or cannot be
\* reached
RegPostFail ==
  /\ regPc = "post"
  /\ regPc' = "idle"
  /\ regResult' = "remote failed"
  /\ UNCHANGED <<regExt, remoteRegs, compareVars, notRegister>>

\* lines 113-130: the answer arrives and the row is inserted with the
\* identifier in it
RegInsertOk ==
  /\ regPc = "insert"
  /\ regExt \notin localRepos
  /\ localRepos' = localRepos \cup {regExt}
  /\ regPc' = "idle"
  /\ regExt' = ""
  /\ regResult' = "registered"
  /\ UNCHANGED <<remoteRegs, remoteRepos, comparison, notRegister>>

\* lines 102-123, 132-139: the answer does not arrive, or the INSERT throws
RegInsertFail ==
  /\ regPc = "insert"
  /\ regPc' = "idle"
  /\ regExt' = ""
  /\ regResult' = "store failed"
  /\ UNCHANGED <<remoteRegs, compareVars, notRegister>>

\* the identifiers the remote assigns to registrations
NewIds == {"e1", "e2"}

RegisterRepoController ==
  \/ RegStartOk
  \/ RegSessionFail
  \/ RegValidateOk
  \/ RegValidateFail
  \/ \E e \in NewIds : RegPostOk(e)
  \/ RegPostFail
  \/ RegInsertOk
  \/ RegInsertFail

\* -------------------------------- UpdateRepositoryController, step by step
RepoNames == {"n1", "n2"}

\* the repository the update requests name
UpdRepos == {"r1"}

\* GitServices.updateLocalRepository({ repoId, name, description, developerId })
updateLocalRepository(r, n) == [localName EXCEPT ![r] = n]

\* lines 320-329: the request names a repository and the new name, and
\* checkAndRefreshSession() resolves
UpdStartOk(r, n) ==
  /\ updPc = "idle"
  /\ updPc' = "patch"
  /\ updReq' = [repoId |-> r, name |-> n]
  /\ updResult' = "none"
  /\ UNCHANGED <<localName, remoteName, notUpdate>>

\* lines 324-329, 355-362: the identifier is malformed, or
\* checkAndRefreshSession() throws
UpdStartFail ==
  /\ updPc = "idle"
  /\ updReq' = NoUpdate
  /\ updResult' = "refused"
  /\ UNCHANGED <<updPc, localName, remoteName, notUpdate>>

\* lines 333-338: the remote accepts the patch
UpdPatchOk ==
  /\ updPc = "patch"
  /\ remoteName' = [remoteName EXCEPT ![updReq.repoId] = updReq.name]
  /\ updPc' = "local"
  /\ UNCHANGED <<updReq, updResult, localName, notUpdate>>

\* mutant of UpdPatchFail: the local row is updated although the patch failed
UpdPatchFail_UpdatesLocal ==
  /\ updPc = "patch"
  /\ localName' = updateLocalRepository(updReq.repoId, updReq.name)
  /\ updPc' = "idle"
  /\ updReq' = NoUpdate
  /\ updResult' = "remote failed"
  /\ UNCHANGED <<remoteName, notUpdate>>

\* lines 333-338, 355-362: the patch fails
UpdPatchFail ==
  /\ updPc = "patch"
  /\ updPc' = "idle"
  /\ updReq' = NoUpdate
  /\ updResult' = "remote failed"
  /\ UNCHANGED <<localName, remoteName, notUpdate>>

\* lines 341-354: the local row is updated and the request is answered
UpdLocalOk ==
  /\ updPc = "local"
  /\ localName' = updateLocalRepository(updReq.repoId, updReq.name)
  /\ updPc' = "idle"
  /\ updReq' = NoUpdate
  /\ updResult' = "updated"
  /\ UNCHANGED <<remoteName, notUpdate>>

\* lines 341-346, 355-362: updateLocalRepository throws after the remote
\* accepted the patch
UpdLocalFail ==
  /\ updPc = "local"
  /\ updPc' = "idle"
  /\ updReq' = NoUpdate
  /\ updResult' = "local failed"
  /\ UNCHANGED <<localName, remoteName, notUpdate>>

UpdateRepositoryController ==
  \/ \E r \in UpdRepos, n \in RepoNames : UpdStartOk(r, n)
  \/ UpdStartFail
  \/ UpdPatchOk
  \/ UpdPatchFail
  \/ UpdLocalOk
  \/ UpdLocalFail

\* the lists the sweeps of WriteOrderSpec are answered with
OrderLists ==
  {<<>>, <<SweepItem("r1", "missing")>>,
   <<SweepItem("r1", "moved"), SweepItem("r2", "deleted")>>}

\* registration, update and the status sweep, as requests arrive
WriteOrderNext ==
  \/ RegisterRepoController
  \/ UpdateRepositoryController
  \/ SweepStartOk
  \/ SweepSessionFail
  \/ \E list \in OrderLists : SweepProbeOk(list)
  \/ SweepProbeFail
  \/ SweepPatchOk
  \/ SweepPatchFail
  \/ SweepLocalOk
  \/ SweepLocalFail

WriteOrderSpec == Init /\ [][WriteOrderNext]_vars

\* ------------------------------------------- parseDiffSummary (legacy flow)
\* A line of the output of git show --stat, by what the two regular
\* expressions of parseDiffSummary look at. kind says what git wrote the line
\* for: "summary" for the aggregate line, "file" for the line of a changed
\* text file (name | 4 ++--), "binary" for the line of a changed binary file
\* (name | Bin 0 -> 1234 bytes), "other" for the header, the message and
\* empty lines. phrase: the line contains <digits> file(s) changed; ins, del:
\* the digits of the ", <n> insertion(s)(+)" and ", <n> deletion(s)(-)" that
\* follow the phrase, {} when that part is absent; bar: what follows the
\* first " | " of a line that begins with text.
SummaryLine(f, i, d) ==
  [kind |-> "summary", phrase |-> TRUE, files |-> f, ins |-> i, del |-> d,
   name |-> "", bar |-> "none"]

FileLine(n) ==
  [kind |-> "file", phrase |-> FALSE, files |-> 0, ins |-> {}, del |-> {},
   name |-> n, bar |-> "digits"]

BinaryLine(n) ==
  [kind |-> "binary", phrase |-> FALSE, files |-> 0, ins |-> {}, del |-> {},
   name |-> n, bar |-> "Bin"]

OtherLine ==
  [kind |-> "other", phrase |-> FALSE, files |-> 0, ins |-> {}, del |-> {},
   name |-> "", bar |-> "none"]

DiffLineKinds ==
  {SummaryLine(1, {2}, {}), SummaryLine(2, {}, {1}), SummaryLine(1, {}, {}),
   SummaryLine(2, {3}, {1}), FileLine("a.ts"), FileLine("b.ts"),
   BinaryLine("img.png"), OtherLine}

\* diffOutput.split('\n') is never empty
DiffOutputs ==
  UNION {[1..n -> DiffLineKinds] : n \in 1..MaxLines}

\* line 228-230: the summary expression, which is not anchored
summaryMatch(line) == line.phrase

\* line 238: /^(.+?)\s+\|\s+\d+/
fileLineMatch(line) == line.bar = "digits"

\* lines 234-235: summaryMatch[n] ? parseInt(summaryMatch[n], 10) : 0
GroupValue(g) == IF g = {} THEN 0 ELSE CHOOSE n \in g : TRUE

\* lines 226-243: the body of lines.forEach
ParseLine(stats, line) ==
  IF summaryMatch(line)
    THEN [stats EXCEPT !.filesChanged = line.files,
                       !.insertions = GroupValue(line.ins),
                       !.deletions = GroupValue(line.del)]
    ELSE IF fileLineMatch(line)
           THEN [stats EXCEPT !.fileNames = Append(@, line.name)]
           ELSE stats

RECURSIVE ParseLines(_, _)
ParseLines(stats, lines) ==
  IF lines = <<>> THEN stats
  ELSE ParseLines(ParseLine(stats, Head(lines)), Tail(lines))

\* lines 219-251
parseDiffSummary(lines) ==
  ParseLines([filesChanged |-> 0, insertions |-> 0, deletions |-> 0,
              fileNames |-> <<>>], lines)

\* line 155-156: git show --stat of a commit and the parse of its output
ParseDiffSummaryCall(lines) ==
  /\ diffLines' = lines
  /\ commitStats' = parseDiffSummary(lines)
  /\ UNCHANGED notParse

ParseNext == \E lines \in DiffOutputs : ParseDiffSummaryCall(lines)

ParseSpec == Init /\ [][ParseNext]_vars

\* extraction, delivery and status operations on the SQLite store
LedgerNext ==
  \/ SyncNext
  \/ \E r \in Repos, st \in Statuses : SweepUpdateOne(r, st)

LedgerSpec == Init /\ [][LedgerNext]_vars

\* Liveness is checked for one repository scope (r1): the handler reads and
\* writes only rows of the repository it is invoked for. The delivery flow
\* keeps being invoked for r1, a session can be obtained, the remote
\* eventually accepts the batch, and the process does not crash at the same
\* step forever.
LiveNext ==
  \/ \E h \in Hashes : upsertCommit("r1", h)
  \/ SyncStartOk("r1")
  \/ SyncSessionFail("r1")
  \/ SyncRead
  \/ SyncPostOk
  \/ SyncPostFail
  \/ SyncMark
  \/ Crash

SyncFairness ==
  /\ SF_vars(SyncStartOk("r1"))
  /\ SF_vars(SyncRead)
  /\ SF_vars(SyncPostOk)
  /\ SF_vars(SyncMark)

SyncLive == Init /\ [][LiveNext]_vars /\ SyncFairness

\* ------------------------------------- checkAndRefreshSession, step by step
\* mutant of SessRead: the refresh is attempted whatever the refresh expiry
SessRead_TriesAnyway(c) ==
  /\ cpc[c] = "idle"
  /\ opRemote' = [opRemote EXCEPT ![c] = FALSE]
  /\ LET s == SelectSession IN
       IF s = NoRow
         THEN /\ result' = [result EXCEPT ![c] = "no session"]
              /\ returned' = [returned EXCEPT ![c] = NoTok]
              /\ UNCHANGED <<cpc, held>>
       ELSE IF ~AccessExpired(s)
         THEN /\ result' = [result EXCEPT ![c] = "valid"]
              /\ returned' = [returned EXCEPT ![c] = s.accessToken]
              /\ UNCHANGED <<cpc, held>>
       ELSE /\ cpc' = [cpc EXCEPT ![c] = "refresh"]
            /\ held' = [held EXCEPT ![c] = s]
            /\ result' = [result EXCEPT ![c] = "none"]
            /\ returned' = [returned EXCEPT ![c] = NoTok]
  /\ UNCHANGED <<session, newTok, lpc, lreq, loginResult>>
  /\ refreshCalls' = [refreshCalls EXCEPT ![c] = IF cpc'[c] = "refresh" THEN 1 ELSE 0]
  /\ sentTok' = [sentTok EXCEPT ![c] = NoTok]
  /\ UNCHANGED notSess

\* lines 21-41: the row is read and the expiries are compared with now; a
\* valid access credential is returned as it is
SessRead(c) ==
  /\ cpc[c] = "idle"
  /\ opRemote' = [opRemote EXCEPT ![c] = FALSE]
  /\ LET s == SelectSession IN
       IF s = NoRow
         THEN /\ result' = [result EXCEPT ![c] = "no session"]
              /\ returned' = [returned EXCEPT ![c] = NoTok]
              /\ UNCHANGED <<cpc, held>>
       ELSE IF ~AccessExpired(s)
         THEN /\ result' = [result EXCEPT ![c] = "valid"]
              /\ returned' = [returned EXCEPT ![c] = s.accessToken]
              /\ UNCHANGED <<cpc, held>>
       ELSE IF RefreshExpired(s)
         THEN /\ result' = [result EXCEPT ![c] = "reauth"]
              /\ returned' = [returned EXCEPT ![c] = NoTok]
              /\ UNCHANGED <<cpc, held>>
       ELSE /\ cpc' = [cpc EXCEPT ![c] = "refresh"]
            /\ held' = [held EXCEPT ![c] = s]
            /\ result' = [result EXCEPT ![c] = "none"]
            /\ returned' = [returned EXCEPT ![c] = NoTok]
  /\ UNCHANGED <<session, newTok, lpc, lreq, loginResult>>
  /\ refreshCalls' = [refreshCalls EXCEPT ![c] = IF cpc'[c] = "refresh" THEN 1 ELSE 0]
  /\ sentTok' = [sentTok EXCEPT ![c] = NoTok]
  /\ UNCHANGED notSess

\* mutant of RefreshOk: the new credential is stored before its expiry is known
RefreshOk_StoresTokenFirst(c) ==
  /\ cpc[c] = "refresh"
  /\ clock < held[c].refreshToken.exp
  /\ \E e \in Expiries :
       /\ e > clock
       /\ newTok' = [newTok EXCEPT ![c] = Tok(held[c].refreshToken.user, "access", e)]
       /\ session' = {IF r.id = 1
                       THEN [r EXCEPT !.accessToken = Tok(held[c].refreshToken.user, "access", e)]
                       ELSE r : r \in session}
  /\ cpc' = [cpc EXCEPT ![c] = "introspect"]
  /\ UNCHANGED <<held, result, returned, opRemote, lpc, lreq, loginResult>>
  /\ UNCHANGED <<callVars, notSess>>

\* lines 44-48: the remote accepts the refresh credential while it is
\* unexpired and answers with a new access credential
RefreshOk(c) ==
  /\ cpc[c] = "refresh"
  /\ clock < held[c].refreshToken.exp
  /\ \E e \in Expiries :
       /\ e > clock
       /\ newTok' = [newTok EXCEPT ![c] = Tok(held[c].refreshToken.user, "access", e)]
  /\ cpc' = [cpc EXCEPT ![c] = "introspect"]
  /\ UNCHANGED <<session, held, result, returned, opRemote, lpc, lreq, loginResult>>
  /\ UNCHANGED <<callVars, notSess>>

\* mutant of RefreshFail: a failed refresh returns the credential that was read
RefreshFail_ReturnsStale(c) ==
  /\ cpc[c] = "refresh"
  /\ cpc' = [cpc EXCEPT ![c] = "idle"]
  /\ held' = [held EXCEPT ![c] = NoRow]
  /\ result' = [result EXCEPT ![c] = "valid"]
  /\ returned' = [returned EXCEPT ![c] = held[c].accessToken]
  /\ UNCHANGED <<session, newTok, opRemote, lpc, lreq, loginResult>>
  /\ UNCHANGED <<callVars, notSess>>

\* mutant of RefreshFail: a refresh call that fails is issued once more
RefreshFail_Retries(c) ==
  /\ cpc[c] = "refresh"
  /\ refreshCalls[c] < 2
  /\ refreshCalls' = [refreshCalls EXCEPT ![c] = @ + 1]
  /\ UNCHANGED <<session, cpc, held, newTok, result, returned, opRemote, lpc, lreq,
                 loginResult, sentTok>>
  /\ UNCHANGED notSess

\* lines 44-46, 57-72: the refresh call is rejected or the remote is
\* unreachable; the catch block throws
RefreshFail(c) ==
  /\ cpc[c] = "refresh"
  /\ cpc' = [cpc EXCEPT ![c] = "idle"]
  /\ held' = [held EXCEPT ![c] = NoRow]
  /\ result' = [result EXCEPT ![c] = "refresh failed"]
  /\ UNCHANGED <<session, newTok, returned, opRemote, lpc, lreq, loginResult>>
  /\ UNCHANGED <<callVars, notSess>>

\* mutant of IntrospectOk: the update addresses the row by the refresh
\* credential that was read, not by id
IntrospectOk_UpdatesRowRead(c) ==
  /\ cpc[c] = "introspect"
  /\ session' = {IF r.refreshToken = held[c].refreshToken
                   THEN [r EXCEPT !.accessToken = newTok[c],
                                  !.accessTokenExpiresAt = newTok[c].exp]
                   ELSE r : r \in session}
  /\ cpc' = [cpc EXCEPT ![c] = "idle"]
  /\ result' = [result EXCEPT ![c] = "refreshed"]
  /\ returned' = [returned EXCEPT ![c] = newTok[c]]
  /\ held' = [held EXCEPT ![c] = NoRow]
  /\ newTok' = [newTok EXCEPT ![c] = NoTok]
  /\ UNCHANGED <<opRemote, lpc, lreq, loginResult>>
  /\ UNCHANGED <<callVars, notSess>>

\* mutant of IntrospectOk: the refresh also rotates the refresh credential
IntrospectOk_RotatesRefresh(c) ==
  /\ cpc[c] = "introspect"
  /\ session' = {[r EXCEPT !.accessToken = newTok[c],
                           !.accessTokenExpiresAt = newTok[c].exp,
                           !.refreshTokenExpiresAt = newTok[c].exp] : r \in session}
  /\ cpc' = [cpc EXCEPT ![c] = "idle"]
  /\ result' = [result EXCEPT ![c] = "refreshed"]
  /\ returned' = [returned EXCEPT ![c] = newTok[c]]
  /\ held' = [held EXCEPT ![c] = NoRow]
  /\ newTok' = [newTok EXCEPT ![c] = NoTok]
  /\ UNCHANGED <<opRemote, lpc, lreq, loginResult>>
  /\ UNCHANGED <<callVars, notSess>>

\* lines 49-56, 75-78: checkToken answers with the new credential's expiry,
\* the row is updated and the new credential is returned
IntrospectOk(c) ==
  /\ cpc[c] = "introspect"
  /\ session' = UpdateAccess(session, newTok[c], newTok[c].exp)
  /\ cpc' = [cpc EXCEPT ![c] = "idle"]
  /\ result' = [result EXCEPT ![c] = "refreshed"]
  /\ returned' = [returned EXCEPT ![c] = newTok[c]]
  /\ held' = [held EXCEPT ![c] = NoRow]
  /\ newTok' = [newTok EXCEPT ![c] = NoTok]
  /\ UNCHANGED <<opRemote, lpc, lreq, loginResult>>
  /\ UNCHANGED <<callVars, notSess>>

\* mutant of IntrospectFail: the new credential is stored with the old expiry
IntrospectFail_StoresToken(c) ==
  /\ cpc[c] = "introspect"
  /\ session' = {IF r.id = 1 THEN [r EXCEPT !.accessToken = newTok[c]] ELSE r
                  : r \in session}
  /\ cpc' = [cpc EXCEPT ![c] = "idle"]
  /\ result' = [result EXCEPT ![c] = "refresh failed"]
  /\ held' = [held EXCEPT ![c] = NoRow]
  /\ newTok' = [newTok EXCEPT ![c] = NoTok]
  /\ UNCHANGED <<returned, opRemote, lpc, lreq, loginResult>>
  /\ UNCHANGED <<callVars, notSess>>

\* lines 49, 57-72 (checkToken 83-94): introspection of the new credential
\* fails; the catch block throws
IntrospectFail(c) ==
  /\ cpc[c] = "introspect"
  /\ cpc' = [cpc EXCEPT ![c] = "idle"]
  /\ result' = [result EXCEPT ![c] = "refresh failed"]
  /\ held' = [held EXCEPT ![c] = NoRow]
  /\ newTok' = [newTok EXCEPT ![c] = NoTok]
  /\ UNCHANGED <<session, returned, opRemote, lpc, lreq, loginResult>>
  /\ UNCHANGED <<callVars, notSess>>

\* mutant of OpRemoteCall: the header carries the credential the row holds
\* when the call is made
OpRemoteCall_UsesStoredToken(c, op) ==
  /\ c \in Foreground
  /\ cpc[c] = "idle"
  /\ Granted(c)
  /\ opRemote' = [opRemote EXCEPT ![c] = TRUE]
  /\ sentTok' = [sentTok EXCEPT ![c] = SelectSession.accessToken]
  /\ UNCHANGED refreshCalls
  /\ UNCHANGED <<session, cpc, held, newTok, result, returned, lpc, lreq, loginResult>>
  /\ UNCHANGED notSess

\* a controller that was handed a credential makes a remote call, with
\* Authorization: Bearer session.accessToken of the session it was handed
\* (each controller calls checkAndRefreshSession before its first remote call)
OpRemoteCall(c, op) ==
  /\ c \in Foreground
  /\ cpc[c] = "idle"
  /\ Granted(c)
  /\ opRemote' = [opRemote EXCEPT ![c] = TRUE]
  /\ sentTok' = [sentTok EXCEPT ![c] = returned[c]]
  /\ UNCHANGED refreshCalls
  /\ UNCHANGED <<session, cpc, held, newTok, result, returned, lpc, lreq, loginResult>>
  /\ UNCHANGED notSess

checkAndRefreshSession(c) ==
  \/ SessRead(c)
  \/ RefreshOk(c)
  \/ RefreshFail(c)
  \/ IntrospectOk(c)
  \/ IntrospectFail(c)

\* ------------------------------------------- startScheduler, one cron tick
\* mutant of SchedRead: the tick refreshes whenever the refresh credential
\* is unexpired
SchedRead_RefreshesEarly ==
  /\ cpc["bg"] = "idle"
  /\ LET s == SelectSession IN
       IF s = NoRow
         THEN /\ result' = [result EXCEPT !["bg"] = "no session"]
              /\ UNCHANGED <<cpc, held>>
       ELSE IF RefreshExpired(s)
         THEN /\ result' = [result EXCEPT !["bg"] = IF AccessExpired(s) THEN "reauth" ELSE "valid"]
              /\ UNCHANGED <<cpc, held>>
       ELSE /\ cpc' = [cpc EXCEPT !["bg"] = "refresh"]
            /\ held' = [held EXCEPT !["bg"] = s]
            /\ result' = [result EXCEPT !["bg"] = "none"]
  /\ UNCHANGED <<session, newTok, returned, opRemote, lpc, lreq, loginResult>>
  /\ refreshCalls' = [refreshCalls EXCEPT !["bg"] = IF cpc'["bg"] = "refresh" THEN 1 ELSE 0]
  /\ sentTok' = [sentTok EXCEPT !["bg"] = NoTok]
  /\ UNCHANGED notSess

\* mutant of SchedRead: an access credential is expired only after its expiry
SchedRead_ExpiredAfter ==
  /\ cpc["bg"] = "idle"
  /\ LET s == SelectSession IN
       IF s = NoRow
         THEN /\ result' = [result EXCEPT !["bg"] = "no session"]
              /\ UNCHANGED <<cpc, held>>
       ELSE IF ~(clock > s.accessTokenExpiresAt)
         THEN /\ result' = [result EXCEPT !["bg"] = "valid"]
              /\ UNCHANGED <<cpc, held>>
       ELSE IF RefreshExpired(s)
         THEN /\ result' = [result EXCEPT !["bg"] = "reauth"]
              /\ UNCHANGED <<cpc, held>>
       ELSE /\ cpc' = [cpc EXCEPT !["bg"] = "refresh"]
            /\ held' = [held EXCEPT !["bg"] = s]
            /\ result' = [result EXCEPT !["bg"] = "none"]
  /\ UNCHANGED <<session, newTok, returned, opRemote, lpc, lreq, loginResult>>
  /\ refreshCalls' = [refreshCalls EXCEPT !["bg"] = IF cpc'["bg"] = "refresh" THEN 1 ELSE 0]
  /\ sentTok' = [sentTok EXCEPT !["bg"] = NoTok]
  /\ UNCHANGED notSess

\* lines 19-44, 81-83: the row is read and the expiries are compared with now
SchedRead ==
  /\ cpc["bg"] = "idle"
  /\ LET s == SelectSession IN
       IF s = NoRow
         THEN /\ result' = [result EXCEPT !["bg"] = "no session"]
              /\ UNCHANGED <<cpc, held>>
       ELSE IF ~AccessExpired(s)
         THEN /\ result' = [result EXCEPT !["bg"] = "valid"]
              /\ UNCHANGED <<cpc, held>>
       ELSE IF RefreshExpired(s)
         THEN /\ result' = [result EXCEPT !["bg"] = "reauth"]
              /\ UNCHANGED <<cpc, held>>
       ELSE /\ cpc' = [cpc EXCEPT !["bg"] = "refresh"]
            /\ held' = [held EXCEPT !["bg"] = s]
            /\ result' = [result EXCEPT !["bg"] = "none"]
  /\ UNCHANGED <<session, newTok, returned, opRemote, lpc, lreq, loginResult>>
  /\ refreshCalls' = [refreshCalls EXCEPT !["bg"] = IF cpc'["bg"] = "refresh" THEN 1 ELSE 0]
  /\ sentTok' = [sentTok EXCEPT !["bg"] = NoTok]
  /\ UNCHANGED notSess

\* lines 47-54: the remote answers the refresh call with a new access credential
SchedRefreshOk ==
  /\ cpc["bg"] = "refresh"
  /\ clock < held["bg"].refreshToken.exp
  /\ \E e \in Expiries :
       /\ e > clock
       /\ newTok' = [newTok EXCEPT !["bg"] =
                       Tok(held["bg"].refreshToken.user, "access", e)]
  /\ cpc' = [cpc EXCEPT !["bg"] = "introspect"]
  /\ UNCHANGED <<session, held, result, returned, opRemote, lpc, lreq, loginResult>>
  /\ UNCHANGED <<callVars, notSess>>

\* lines 47-52, 65-80: the refresh call fails; the error is logged
SchedRefreshFail ==
  /\ cpc["bg"] = "refresh"
  /\ cpc' = [cpc EXCEPT !["bg"] = "idle"]
  /\ held' = [held EXCEPT !["bg"] = NoRow]
  /\ result' = [result EXCEPT !["bg"] = "refresh failed"]
  /\ UNCHANGED <<session, newTok, returned, opRemote, lpc, lreq, loginResult>>
  /\ UNCHANGED <<callVars, notSess>>

\* mutant of SchedIntrospectOk: the new credential is logged and not stored
SchedIntrospectOk_LogsOnly ==
  /\ cpc["bg"] = "introspect"
  /\ cpc' = [cpc EXCEPT !["bg"] = "idle"]
  /\ result' = [result EXCEPT !["bg"] = "refreshed"]
  /\ held' = [held EXCEPT !["bg"] = NoRow]
  /\ newTok' = [newTok EXCEPT !["bg"] = NoTok]
  /\ UNCHANGED <<session, returned, opRemote, lpc, lreq, loginResult>>
  /\ UNCHANGED <<callVars, notSess>>

\* lines 55-64: checkToken answers with the expiry and the row is updated
SchedIntrospectOk ==
  /\ cpc["bg"] = "introspect"
  /\ session' = UpdateAccess(session, newTok["bg"], newTok["bg"].exp)
  /\ cpc' = [cpc EXCEPT !["bg"] = "idle"]
  /\ result' = [result EXCEPT !["bg"] = "refreshed"]
  /\ held' = [held EXCEPT !["bg"] = NoRow]
  /\ newTok' = [newTok EXCEPT !["bg"] = NoTok]
  /\ UNCHANGED <<returned, opRemote, lpc, lreq, loginResult>>
  /\ UNCHANGED <<callVars, notSess>>

\* lines 55, 65-80: introspection fails; the error is logged
SchedIntrospectFail ==
  /\ cpc["bg"] = "introspect"
  /\ cpc' = [cpc EXCEPT !["bg"] = "idle"]
  /\ result' = [result EXCEPT !["bg"] = "refresh failed"]
  /\ held' = [held EXCEPT !["bg"] = NoRow]
  /\ newTok' = [newTok EXCEPT !["bg"] = NoTok]
  /\ UNCHANGED <<session, returned, opRemote, lpc, lreq, loginResult>>
  /\ UNCHANGED <<callVars, notSess>>

startScheduler ==
  \/ SchedRead
  \/ SchedRefreshOk
  \/ SchedRefreshFail
  \/ SchedIntrospectOk
  \/ SchedIntrospectFail

\* ------------------------------------------------ simulateLogin, by step
\* lines 9-25: the remote accepts the credentials and answers with an access
\* and a refresh credential; a user who is not a developer is turned away
LoginPostOk(u, dev, ea, er) ==
  /\ lpc = "idle"
  /\ ea > clock
  /\ er >= ea
  /\ IF dev
       THEN /\ lpc' = "introA"
            /\ lreq' = [access |-> Tok(u, "access", ea), refresh |-> Tok(u, "refresh", er)]
            /\ loginResult' = "none"
       ELSE /\ loginResult' = "forbidden"
            /\ UNCHANGED <<lpc, lreq>>
  /\ UNCHANGED <<session, cpc, held, newTok, result, returned, opRemote>>
  /\ UNCHANGED <<callVars, notSess>>

\* lines 10, 51-64: the remote rejects the credentials or is unreachable
LoginPostFail ==
  /\ lpc = "idle"
  /\ loginResult' = "rejected"
  /\ UNCHANGED <<session, cpc, held, newTok, result, returned, opRemote, lpc, lreq>>
  /\ UNCHANGED <<callVars, notSess>>

\* line 28: checkToken(access_token) answers
LoginIntroAccessOk ==
  /\ lpc = "introA"
  /\ lpc' = "introR"
  /\ UNCHANGED <<session, cpc, held, newTok, result, returned, opRemote, lreq,
                 loginResult>>
  /\ UNCHANGED <<callVars, notSess>>

\* mutant of LoginIntroFail: the prior row is deleted before the
\* introspection calls, so a failure leaves no session
LoginIntroFail_AfterDelete ==
  /\ lpc \in {"introA", "introR"}
  /\ session' = {r \in session : r.id # 1}
  /\ lpc' = "idle"
  /\ lreq' = NoLogin
  /\ loginResult' = "error"
  /\ UNCHANGED <<cpc, held, newTok, result, returned, opRemote>>
  /\ UNCHANGED <<callVars, notSess>>

\* lines 28-29, 51-64: one of the two introspection calls fails
LoginIntroFail ==
  /\ lpc \in {"introA", "introR"}
  /\ lpc' = "idle"
  /\ lreq' = NoLogin
  /\ loginResult' = "error"
  /\ UNCHANGED <<session, cpc, held, newTok, result, returned, opRemote>>
  /\ UNCHANGED <<callVars, notSess>>

\* mutant of LoginIntroRefreshOk: the prior row is kept and the new one takes
\* the next id
LoginIntroRefreshOk_NoDelete ==
  /\ lpc = "introR"
  /\ session' = session \cup
       {SessionRowOf(Cardinality(session) + 1, lreq.access, lreq.refresh)}
  /\ lpc' = "idle"
  /\ lreq' = NoLogin
  /\ loginResult' = "ok"
  /\ UNCHANGED <<cpc, held, newTok, result, returned, opRemote>>
  /\ UNCHANGED <<callVars, notSess>>

\* lines 29-50: checkToken(refresh_token) answers; the row with id 1 is
\* deleted and the new row is inserted with id 1 (two synchronous statements)
LoginIntroRefreshOk ==
  /\ lpc = "introR"
  /\ session' = {r \in session : r.id # 1} \cup
       {SessionRowOf(1, lreq.access, lreq.refresh)}
  /\ lpc' = "idle"
  /\ lreq' = NoLogin
  /\ loginResult' = "ok"
  /\ UNCHANGED <<cpc, held, newTok, result, returned, opRemote>>
  /\ UNCHANGED <<callVars, notSess>>

simulateLogin ==
  \/ \E u \in Users, dev \in BOOLEAN, ea \in Expiries, er \in Expiries :
       LoginPostOk(u, dev, ea, er)
  \/ LoginPostFail
  \/ LoginIntroAccessOk
  \/ LoginIntroFail
  \/ LoginIntroRefreshOk

\* foreground requests, the scheduler, login and the passing of time
SessionNext ==
  \/ \E c \in Foreground : checkAndRefreshSession(c)
  \/ \E c \in Foreground, op \in RemoteOps : OpRemoteCall(c, op)
  \/ startScheduler
  \/ simulateLogin
  \/ Tick

SessionSpec == Init /\ [][SessionNext]_vars

\* CompareRepositoriesController, lines 259-265: with the session the check
\* handed it, GET /api/git/repositories
CompareListing(c) == OpRemoteCall(c, "compare")

\* a compare request, the scheduler, login and the passing of time
CompareNext ==
  \/ checkAndRefreshSession("fg")
  \/ CompareListing("fg")
  \/ startScheduler
  \/ simulateLogin
  \/ Tick

CompareSpec == Init /\ [][CompareNext]_vars

\* the scheduler on its own: no request reaches a controller
WarmNext ==
  \/ startScheduler
  \/ simulateLogin
  \/ Tick

\* the cron expression fires every ten minutes (scheduler.ts:16); the remote
\* answers every call, and answers a call that keeps being made with success
\* in the end
WarmFairness ==
  /\ WF_vars(SchedRead)
  /\ WF_vars(SchedRefreshOk \/ SchedRefreshFail)
  /\ WF_vars(SchedIntrospectOk \/ SchedIntrospectFail)
  /\ SF_vars(SchedRefreshOk)
  /\ SF_vars(SchedIntrospectOk)

WarmSpec == Init /\ [][WarmNext]_vars /\ WarmFairness

\* what the program does of its own accord: a request reaches a controller,
\* which calls its check and then the remote; the cron job fires. The answer
\* to a call is the remote's to give: no call is made with a timeout, so no
\* step of the program ends a call the remote leaves unanswered
ProgramFairness ==
  /\ WF_vars(SessRead("fg"))
  /\ WF_vars(SchedRead)
  /\ WF_vars(\E op \in RemoteOps : OpRemoteCall("fg", op))

SessionFair == Init /\ [][SessionNext]_vars /\ ProgramFairness

\* time passes once more after the last Tick
LateTick ==
  /\ clock = MaxClock
  /\ clock' = clock + 1
  /\ UNCHANGED <<repoDocStatus, history, lastSyncedAt, gitData, pc, branchArg, since, log,
                 cur, newCommits, now, fetchResult, startCount, prior, lastDone>>
  /\ UNCHANGED notLegacy

\* the same steps over a longer stretch of time
SessionLongNext ==
  \/ SessionNext
  \/ LateTick

SessionLong == Init /\ [][SessionLongNext]_vars

\* ------------------------------------------------- delivery flow: claims
UnsyncedIn(table, r) == {KeyOf(row) : row \in {x \in table : x.repoId = r /\ x.synced = 0}}

\* keys the remote acknowledged whose rows are still unsynced locally
AckedUnmarked == {k \in UnsyncedKeys : acks[k] >= 1}

\* C1: no commit row is marked synced unless it was part of a payload the
\* remote acknowledged (a row inserted between the read and the mark is not
\* marked by that delivery).
C1_SyncedOnlyIfAcknowledged ==
  \A row \in git_commits : row.synced = 1 => acks[KeyOf(row)] >= 1

\* C2: a synced flag changes only in the mark step of a delivery whose remote
\* call returned success for the payload; a step that answers an error
\* (session or remote failure) leaves every flag as it was.
C2_MarkOnlyAfterRemoteSuccess ==
  [][ /\ (SyncedKeys' # SyncedKeys) =>
           /\ syncPc = "mark"
           /\ syncResult' = "success"
           /\ \A k \in payload : acks[k] >= 1 /\ remoteCopies[k] >= 1
      /\ (syncResult' = "error") => (SyncedKeys' = SyncedKeys) ]_vars

C2_Witness ==
  /\ syncResult = "error"
  /\ \E k \in UnsyncedKeys : remoteCopies[k] = 0
  /\ SyncedKeys # {}

\* C3: a crash after the remote acknowledged the batch and before the mark
\* leaves the batch unsynced, and every acknowledged-but-unmarked commit of the
\* repository is in the payload of the next delivery.
C3_AtLeastOnce ==
  /\ [](syncPc \in {"post", "mark"} =>
          {k \in AckedUnmarked : k[1] = syncRepo} \subseteq payload)
  /\ [][(syncPc = "mark" /\ syncPc' = "idle" /\ syncResult' = "none") =>
          (payload \subseteq UnsyncedKeys' /\ git_commits' = git_commits)]_vars

C3_Witness ==
  /\ syncPc = "post"
  /\ \E k \in payload : acks[k] >= 1 /\ k \in UnsyncedKeys

\* C4: with a remote idempotent on (repository, commit hash) no key has more
\* than one remote-visible copy however often it is delivered, and when a
\* delivery answers success every commit of its batch is synced and the
\* unsynced set of its repository is empty.
C4_IdempotentDelivery ==
  /\ [](\A k \in Keys : remoteCopies[k] <= 1)
  /\ [][(syncPc = "mark" /\ syncResult' = "success") =>
          /\ payload \subseteq SyncedKeys'
          /\ UnsyncedIn(git_commits', syncRepo) = {}
          /\ syncChanges' >= Cardinality(payload)]_vars

C4_Witness ==
  /\ syncResult = "success"
  /\ \E k \in payload : acks[k] >= 2 /\ remoteCopies[k] = 1 /\ k \in SyncedKeys

\* C5: under SyncFairness every commit stored unsynced is eventually synced.
C5_EventualDelivery ==
  \A k \in Keys : (k \in UnsyncedKeys) ~> (k \in SyncedKeys)

C5_Witness ==
  /\ SyncedKeys = {k \in Keys : k[1] = "r1"}
  /\ \E k \in SyncedKeys : acks[k] >= 2

\* C6: a synced row stays stored and synced across every step, and a row's
\* flag changes only in the mark step of the delivery flow.
C6_SyncedMonotone ==
  [][ /\ SyncedKeys \subseteq SyncedKeys'
      /\ (\E k \in UnsyncedKeys : k \notin UnsyncedKeys') =>
           (syncPc = "mark" /\ syncPc' = "idle" /\ syncResult' = "success") ]_vars

C6_Witness ==
  /\ SyncedKeys # {}
  /\ UnsyncedKeys # {}
  /\ \E r \in Repos : repoStatus[r] # "active"
  /\ syncResult = "error"

\* ------------------------------------------------ legacy extractor: claims
\* C7: every document the extractor writes is created unsynced.
C7_CreatedUnsynced ==
  [][\A d \in BagToSet(gitData') :
        CopiesIn(d, gitData') > CopiesIn(d, gitData) => d.synced = FALSE]_vars

\* C8: a run that completes after a run that had completed before it began,
\* with no commit entering the history since that earlier run began, returns
\* no new commit and leaves the number of stored documents as it was.
C8_IdempotentExtraction ==
  [][(/\ pc["p1"] = "finish" /\ pc'["p1"] = "idle"
      /\ prior["p1"] # NoRun
      /\ prior["p1"].count = Cardinality(history)) =>
        (/\ newCommits["p1"] = {}
         /\ BagCardinality(gitData') = prior["p1"].docs)]_vars

C8_Witness ==
  /\ pc["p1"] = "finish"
  /\ prior["p1"] # NoRun
  /\ prior["p1"].count = Cardinality(history)
  /\ prior["p1"].docs = MaxCommits
  /\ newCommits["p1"] = {}

\* C9: the ledger holds at most one document per (commit hash, repository).
C9_OnePerHashAndScope ==
  \A h \in Hashes : DocsWithHash(gitData, h) <= 1

\* C10: when a run completes, every commit by the configured author that is
\* in the history at that moment is in the ledger.
C10_NoLoss ==
  [][\A p \in Procs : (pc[p] = "finish" /\ pc'[p] = "idle") =>
        \A c \in history : c.mine => c.hash \in LedgerHashes]_vars

\* C11 (as stated): when a run completes, the watermark is the wall-clock
\* time of that moment.
C11_WatermarkIsCompletionTime ==
  [][\A p \in Procs : (pc[p] = "finish" /\ pc'[p] = "idle") =>
        lastSyncedAt' = clock]_vars

\* C11 (amended): the run reads the wall clock once its commit loop is over,
\* whether or not it stored a commit, and on completion sets the watermark to
\* that reading, which is not later than the time of completion.
C11_WatermarkIsRunsNow ==
  [][\A p \in Procs :
        /\ (pc[p] = "loop" /\ pc'[p] = "finish") => now'[p] = clock
        /\ (pc[p] = "finish" /\ pc'[p] = "idle") =>
             (lastSyncedAt' = now[p] /\ now[p] <= clock)]_vars

C11_Witness ==
  /\ pc["p1"] = "finish"
  /\ newCommits["p1"] = {}
  /\ now["p1"] = MaxClock
  /\ lastSyncedAt > 0
  /\ lastSyncedAt < MaxClock
  /\ LedgerHashes # {}
  /\ \A c \in history : c.date < MaxClock

\* C12: the watermark never decreases, and the commits a run returns as new
\* are dated at or after the watermark the run started with.
C12_MonotonicWatermark ==
  [][/\ lastSyncedAt' >= lastSyncedAt
     /\ \A p \in Procs : (pc[p] = "finish" /\ pc'[p] = "idle") =>
          \A h \in newCommits[p] : DateOf(h) >= since[p]]_vars

KeptColumns(r) ==
  [id |-> r.id, refreshToken |-> r.refreshToken,
   refreshTokenExpiresAt |-> r.refreshTokenExpiresAt, userId |-> r.userId]

\* C14: a successful refresh, foreground or background, leaves the number
\* of rows and each row's refresh credential, refresh expiry and principal
\* as they were, and stores the credential it obtained with its expiry.
C14_RefreshKeepsRefreshCredential ==
  [][\A c \in Checkers : (cpc[c] = "introspect" /\ result'[c] = "refreshed") =>
        /\ Cardinality(session') = Cardinality(session)
        /\ {KeptColumns(r) : r \in session'} = {KeptColumns(r) : r \in session}
        /\ \A r \in session' : r.id = 1 =>
             (r.accessToken = newTok[c] /\ r.accessTokenExpiresAt = newTok[c].exp)]_vars

C14_Witness ==
  /\ result["fg"] = "refreshed"
  /\ result["bg"] = "refreshed"
  /\ SelectSession # NoRow
  /\ ~AccessExpired(SelectSession)

\* C15: a check that runs when both credentials are expired issues no
\* refresh call, returns no credential and changes no row; the foreground
\* one fails asking for re-authentication, and a controller calls the remote
\* only after its check handed it a credential.
C15_FailClosed ==
  /\ [](opRemote["fg"] => Granted("fg"))
  /\ [][\A c \in Checkers :
          (/\ FullyExpired
           /\ cpc[c] = "idle"
           /\ \/ result'[c] # result[c]
              \/ returned'[c] # returned[c]
              \/ cpc'[c] # cpc[c]
              \/ (opRemote[c] /\ ~opRemote'[c])) =>
            (/\ cpc'[c] = "idle"
             /\ result'[c] = "reauth"
             /\ returned'[c] = NoTok
             /\ ~opRemote'[c]
             /\ session' = session)]_vars

C15_Witness ==
  /\ FullyExpired
  /\ result["fg"] = "reauth"
  /\ result["bg"] = "reauth"
  /\ loginResult = "ok"

\* C16: while both credentials are expired, only the step of a login that
\* stores the new session changes the session table, and no check returns a
\* credential.
C16_FullyExpiredIsTerminal ==
  [][FullyExpired =>
       /\ (session' # session => lpc = "introR")
       /\ \A c \in Checkers : returned'[c] # returned[c] => returned'[c] = NoTok]_vars

\* C17: a refresh that fails, at the refresh call or at the introspection
\* of the new credential, leaves the session table as it was.
C17_FailedRefreshLeavesRecord ==
  [][\A c \in Checkers :
        (cpc[c] \in {"refresh", "introspect"} /\ result'[c] = "refresh failed") =>
          session' = session]_vars

C17_Witness ==
  /\ result["bg"] = "refresh failed"
  /\ cpc["fg"] = "refresh"
  /\ SelectSession # NoRow
  /\ held["fg"].refreshToken = SelectSession.refreshToken
  /\ ~RefreshExpired(SelectSession)

\* C18: at most one refresh call is in flight.
C18_OneRefreshInFlight ==
  Cardinality({c \in Checkers : cpc[c] = "refresh"}) <= 1

\* C19: the stored access expiry is the expiry of the stored access credential.
C19_AccessPairConsistent ==
  \A r \in session : r.accessTokenExpiresAt = r.accessToken.exp

C19_Witness ==
  /\ SelectSession # NoRow
  /\ SelectSession.accessToken.user # SelectSession.userId
  /\ loginResult = "ok"

\* C20: the session table never holds more than one row, and the step of a
\* login that stores the session leaves exactly the row of that login.
C20_SessionSingleton ==
  /\ [](Cardinality(session) <= 1)
  /\ [][(lpc = "introR" /\ loginResult' = "ok" /\ lpc' = "idle") =>
          session' = {SessionRowOf(1, lreq.access, lreq.refresh)}]_vars

C20_Witness ==
  /\ loginResult = "ok"
  /\ SelectSession # NoRow
  /\ SelectSession.userId = "u2"
  /\ SelectSession.accessToken.user = "u2"
  /\ returned["fg"].user = "u1"

\* C21: a controller calls the remote only after its check handed it a
\* credential, every remote call it makes carries exactly that returned
\* credential, and a check that fails is followed by no remote call.
C21_CredentialFromCheck ==
  /\ [](\A c \in Foreground :
          opRemote[c] =>
            (Granted(c) /\ returned[c] # NoTok /\ sentTok[c] = returned[c]))
  /\ [][\A c \in Foreground :
          /\ (sentTok'[c] # sentTok[c] /\ sentTok'[c] # NoTok) =>
               (/\ cpc[c] = "idle"
                /\ Granted(c)
                /\ sentTok'[c] = returned[c]
                /\ returned'[c] = returned[c])
          /\ result'[c] \in {"no session", "reauth", "refresh failed"} =>
               (~opRemote'[c] /\ sentTok'[c] = NoTok)]_vars

\* the remote call carried the credential the check returned although the
\* row has since been given another one
C21_Witness ==
  /\ opRemote["fg"]
  /\ result["fg"] = "refreshed"
  /\ sentTok["fg"] = returned["fg"]
  /\ SelectSession # NoRow
  /\ SelectSession.accessToken # sentTok["fg"]

\* C22: a compare request that finds the access credential expired and the
\* refresh credential valid issues one refresh call and no more; when the
\* refresh succeeds it stores the new access credential and returns it, and
\* the remote listing carries that new credential, not the expired one.
C22_RefreshThenList ==
  /\ [](/\ refreshCalls["fg"] <= 1
        /\ (result["fg"] = "refreshed" => refreshCalls["fg"] = 1)
        /\ (opRemote["fg"] /\ result["fg"] = "refreshed") =>
             sentTok["fg"] = returned["fg"])
  /\ [][/\ (/\ cpc["fg"] = "idle"
             /\ SelectSession # NoRow
             /\ AccessExpired(SelectSession)
             /\ ~RefreshExpired(SelectSession)
             /\ (result'["fg"] # result["fg"] \/ cpc'["fg"] # cpc["fg"])) =>
               (cpc'["fg"] = "refresh" /\ refreshCalls'["fg"] = 1)
        /\ (cpc["fg"] = "introspect" /\ result'["fg"] = "refreshed") =>
              (/\ session' = UpdateAccess(session, newTok["fg"], newTok["fg"].exp)
               /\ returned'["fg"] = newTok["fg"]
               /\ returned'["fg"].exp > held["fg"].accessTokenExpiresAt
               /\ (session # {} => SelectSession'.accessToken = newTok["fg"]))]_vars

\* the request refreshed once and listed with the credential it stored,
\* the scheduler not having run
C22_Witness ==
  /\ result["fg"] = "refreshed"
  /\ refreshCalls["fg"] = 1
  /\ opRemote["fg"]
  /\ SelectSession # NoRow
  /\ sentTok["fg"] = SelectSession.accessToken
  /\ result["bg"] = "none"
  /\ loginResult = "ok"

\* C23: with no foreground request at all, whenever the stored access
\* credential is expired while the stored refresh credential is not, the
\* scheduler eventually leaves the session with an unexpired access
\* credential, unless the refresh credential expires first.
C23_KeptWarm ==
  (/\ SelectSession # NoRow
   /\ AccessExpired(SelectSession)
   /\ ~RefreshExpired(SelectSession))
    ~> (\/ SelectSession # NoRow /\ ~AccessExpired(SelectSession)
        \/ SelectSession # NoRow /\ RefreshExpired(SelectSession))

\* the scheduler refreshed a session no foreground check ever looked at
C23_Witness ==
  /\ result["bg"] = "refreshed"
  /\ SelectSession # NoRow
  /\ ~AccessExpired(SelectSession)
  /\ SelectSession.accessToken.exp > SelectSession.refreshToken.exp - 1
  /\ result["fg"] = "none"
  /\ ~opRemote["fg"]

\* one step of the session state machine, taken by check c: what it does
\* to its own position, to what it holds and to the session table, given the
\* row, the clock and the remote's answer
SessionMachineStep(c) ==
  LET s == SelectSession IN
  \/ /\ cpc[c] = "idle"
     /\ session' = session
     /\ newTok'[c] = newTok[c]
     /\ IF s # NoRow /\ AccessExpired(s) /\ ~RefreshExpired(s)
          THEN /\ cpc'[c] = "refresh"
               /\ held'[c] = s
               /\ result'[c] = "none"
          ELSE /\ cpc'[c] = "idle"
               /\ held'[c] = held[c]
               /\ result'[c] = IF s = NoRow THEN "no session"
                                ELSE IF ~AccessExpired(s) THEN "valid"
                                ELSE "reauth"
  \/ /\ cpc[c] = "refresh"
     /\ session' = session
     /\ \/ /\ cpc'[c] = "introspect"
           /\ held'[c] = held[c]
           /\ result'[c] = result[c]
           /\ newTok'[c].kind = "access"
           /\ newTok'[c].user = held[c].refreshToken.user
        \/ /\ cpc'[c] = "idle"
           /\ result'[c] = "refresh failed"
           /\ newTok'[c] = newTok[c]
  \/ /\ cpc[c] = "introspect"
     /\ cpc'[c] = "idle"
     /\ \/ /\ session' = UpdateAccess(session, newTok[c], newTok[c].exp)
           /\ result'[c] = "refreshed"
        \/ /\ session' = session
           /\ result'[c] = "refresh failed"

\* C24: the foreground check and the scheduler tick take the steps of one and
\* the same state machine: from the same row, clock and remote answers each
\* changes its position and the session table in the same way, and the table
\* is changed by nothing else but the storing step of a login.
C24_SameMachine ==
  [][/\ \A c \in Checkers :
          (\/ cpc'[c] # cpc[c]
           \/ result'[c] # result[c]
           \/ held'[c] # held[c]
           \/ newTok'[c] # newTok[c]) => SessionMachineStep(c)
     /\ session' # session =>
          (\/ lpc = "introR"
           \/ \E c \in Checkers : cpc[c] = "introspect" /\ SessionMachineStep(c))]_vars

\* both read the same row and were given the same answer by the remote
C24_Witness ==
  /\ cpc["fg"] = "introspect"
  /\ cpc["bg"] = "introspect"
  /\ held["fg"] = held["bg"]
  /\ newTok["fg"] = newTok["bg"]

\* C25: every check that has issued a call to the remote comes to an end,
\* with a credential or with a failure, whether or not the remote answers.
C25_EveryCallEnds ==
  \A c \in Checkers : (cpc[c] # "idle") ~> (cpc[c] = "idle")

\* how often repository r occurs in list l of repository ids
OccursIn(l, r) == Cardinality({i \in 1..Len(l) : l[i] = r})

\* C26: in the report of a sweep every checked repository is in exactly one
\* of successes and failures, totalSuccess + totalFailed = totalChecked and
\* allSucceeded holds exactly when failures is empty; a repository that
\* fails is pushed to failures and the loop goes on with the next one, the
\* report being sent after the last.
C26_PartialFailure ==
  /\ [](sweepReport.kind = "report" =>
          /\ sweepReport.totalChecked = Len(sweepList)
          /\ sweepReport.totalSuccess + sweepReport.totalFailed = sweepReport.totalChecked
          /\ (sweepReport.allSucceeded <=> (sweepReport.failures = <<>>))
          /\ \A i \in 1..Len(sweepList) :
               OccursIn(sweepReport.successes, sweepList[i].repoId)
                 + OccursIn(sweepReport.failures, sweepList[i].repoId) = 1
          /\ \A r \in Repos :
               (OccursIn(sweepReport.successes, r) + OccursIn(sweepReport.failures, r) > 0) =>
                 \E i \in 1..Len(sweepList) : sweepList[i].repoId = r)
  /\ [][(sweepPc \in {"patch", "local"} /\ sweepPc' # "local") =>
          (/\ Len(successes') + Len(failures') = sweepIdx
           /\ IF sweepIdx < Len(sweepList)
                THEN sweepPc' = "patch" /\ sweepIdx' = sweepIdx + 1
                ELSE sweepPc' = "idle" /\ sweepReport'.kind = "report")]_vars

\* the first repository failed and the second was processed all the same
C26_Witness ==
  /\ sweepReport.kind = "report"
  /\ sweepReport.failures = <<"r1">>
  /\ sweepReport.successes = <<"r2">>
  /\ ~sweepReport.allSucceeded
  /\ repoStatus["r2"] = "moved"

\* C27: the sweep answers with the batch-fatal error, and no report, only
\* at the step where checkAndRefreshSession fails; a failure at any later
\* step, the probing of the local statuses included, leaves the request on
\* its way to a report.
C27_OnlySessionFailureIsFatal ==
  [][(sweepReport'.kind = "fatal" /\ sweepReport' # sweepReport) =>
       sweepPc = "idle"]_vars

\* C28: the status a check saves is active when the path is accessible and
\* holds the working copy that was registered, missing when the path is
\* inaccessible, deleted when it is accessible and holds no repository, and
\* moved when it is accessible and holds a repository whose fingerprint is
\* not the recorded one.
C28_ProbeMapping ==
  lastProbe # NoProbe =>
    /\ lastProbe.access # "ok" => repoDocStatus = "missing"
    /\ (lastProbe.access = "ok" /\ lastProbe.git = "not a git repository") =>
         repoDocStatus = "deleted"
    /\ (lastProbe.access = "ok" /\ lastProbe.git = "work tree" /\ ~lastProbe.sameRepo) =>
         repoDocStatus = "moved"
    /\ (lastProbe.access = "ok" /\ lastProbe.git = "work tree" /\ lastProbe.sameRepo) =>
         repoDocStatus = "active"

C30_BranchAttribution ==
  (branchProbe # NoBranchProbe /\ branchProbe.arg = "") =>
    commitBranch =
      IF \E i \in 1..Len(branchProbe.all) : branchProbe.all[i] = branchProbe.current
        THEN branchProbe.current
      ELSE IF Len(branchProbe.all) > 0 THEN branchProbe.all[1]
      ELSE "unknown"

\* C31: a run constrained to a branch the repository does not have fails
\* with an error whose message lists the branches the repository has, stores
\* no commit and leaves the watermark where it was.
C31_BranchNotFound ==
  /\ [](\A p \in Procs :
          fetchResult[p] = "branch not found" => errorBranches[p] = RepoBranches)
  /\ [][\A p \in Procs :
          (fetchResult'[p] = "branch not found" /\ pc[p] = "log") =>
            (gitData' = gitData /\ lastSyncedAt' = lastSyncedAt)]_vars

\* C32: once a delete request has removed the repository, no commit record
\* of that repository is in the ledger, whatever extraction run went on
\* while the delete did.
C32_DeleteCascades ==
  ~repoExists => gitData = EmptyBag

\* the steps at which a run ends in failure
FailedStep(p) ==
  /\ fetchResult'[p] \in {"error", "not active", "not found", "branch not found"}
  /\ (pc[p] # "idle" \/ fetchResult'[p] # fetchResult[p])
  /\ pc'[p] = "idle"

\* C38: a run that fails, at whatever step, leaves the watermark and the
\* commit records as they are; the records a failed run had written are
\* found by the next run and not written again.
C38_FailedRunKeepsWatermark ==
  /\ [][\A p \in Procs :
          FailedStep(p) => (lastSyncedAt' = lastSyncedAt /\ gitData' = gitData)]_vars
  /\ [](\A h \in Hashes : DocsWithHash(gitData, h) <= 1)

\* no run has completed yet, and the run under way meets a record that a
\* run that failed had written
C38_Witness ==
  /\ lastSyncedAt = 0
  /\ fetchResult["p1"] = "none"
  /\ pc["p1"] = "loop"
  /\ log["p1"] # {}
  /\ existingCommit(NextOf(log["p1"]))

\* the names of the lines git wrote for changed files, in their order
RECURSIVE PerFileNames(_)
PerFileNames(lines) ==
  IF lines = <<>> THEN <<>>
  ELSE IF Head(lines).kind \in {"file", "binary"}
         THEN <<Head(lines).name>> \o PerFileNames(Tail(lines))
         ELSE PerFileNames(Tail(lines))

\* the last aggregate line, or OtherLine when there is none
RECURSIVE LastSummary(_)
LastSummary(lines) ==
  IF lines = <<>> THEN OtherLine
  ELSE IF lines[Len(lines)].kind = "summary" THEN lines[Len(lines)]
  ELSE LastSummary(SubSeq(lines, 1, Len(lines) - 1))

\* C33: the parse of any sequence of lines returns statistics: the counts
\* are those of the aggregate line, a missing insertion or deletion count
\* being 0 each on its own; the file names are the names of the per-file
\* change lines, one for each and none for an aggregate line; with no
\* parseable line all counts are 0 and there is no file name.
C33_ParseDiffSummary ==
  diffLines # <<>> =>
    /\ commitStats # NoStats
    /\ commitStats.filesChanged = LastSummary(diffLines).files
    /\ commitStats.insertions = GroupValue(LastSummary(diffLines).ins)
    /\ commitStats.deletions = GroupValue(LastSummary(diffLines).del)
    /\ commitStats.fileNames = PerFileNames(diffLines)
    /\ ((\A i \in 1..Len(diffLines) : diffLines[i].kind = "other") =>
          commitStats = parseDiffSummary(<<>>))

\* a step in which checkAndRefreshSession of c returns a credential
ReturnsCredential(c) ==
  /\ returned'[c] # NoTok
  /\ \/ cpc[c] # "idle"
     \/ returned'[c] # returned[c]
     \/ result'[c] # result[c]
     \/ (opRemote[c] /\ ~opRemote'[c])

\* C34: the check returns a credential only when the access expiry it read
\* is strictly after the time of the check, and then the stored credential,
\* or when its refresh call and the introspection of the new credential
\* both succeeded, and then the new credential; a check whose refresh
\* failed returns none.
C34_NeverReturnsExpired ==
  /\ [][\A c \in Foreground :
          ReturnsCredential(c) =>
            \/ /\ cpc[c] = "idle"
               /\ clock < SelectSession.accessTokenExpiresAt
               /\ returned'[c] = SelectSession.accessToken
               /\ result'[c] = "valid"
            \/ /\ cpc[c] = "introspect"
               /\ returned'[c] = newTok[c]
               /\ returned'[c] # held[c].accessToken
               /\ result'[c] = "refreshed"]_vars
  /\ [](\A c \in Foreground :
          result[c] \in {"no session", "reauth", "refresh failed"} =>
            returned[c] = NoTok)

\* the check found the access credential expired, refreshed it and returned
\* the new one
C34_Witness ==
  /\ result["fg"] = "refreshed"
  /\ returned["fg"] # NoTok
  /\ clock < returned["fg"].exp
  /\ cpc["bg"] = "idle"
  /\ lpc = "idle"

BeginsCheck(c) ==
  /\ cpc[c] = "idle"
  /\ \/ cpc'[c] # "idle"
     \/ result'[c] # result[c]
     \/ refreshCalls'[c] # refreshCalls[c]
     \/ (opRemote[c] /\ ~opRemote'[c])

\* C36: a check or a tick that finds the row with an unexpired access
\* credential ends at once, with no refresh call and the table as it was;
\* with no row, the tick ends at once with no call and no write, and the
\* check fails with the no-session error.
C36_NothingToDo ==
  [][\A c \in Checkers :
        /\ (BeginsCheck(c) /\ SelectSession # NoRow /\ ~AccessExpired(SelectSession)) =>
             (/\ cpc'[c] = "idle"
              /\ refreshCalls'[c] = 0
              /\ session' = session
              /\ result'[c] = "valid")
        /\ (BeginsCheck(c) /\ SelectSession = NoRow) =>
             (/\ cpc'[c] = "idle"
              /\ refreshCalls'[c] = 0
              /\ session' = session
              /\ result'[c] = "no session"
              /\ returned'[c] = NoTok)]_vars

\* the tick and the check both found the access credential unexpired
C36_Witness ==
  /\ result["bg"] = "valid"
  /\ result["fg"] = "valid"
  /\ refreshCalls["bg"] = 0
  /\ refreshCalls["fg"] = 0
  /\ SelectSession # NoRow
  /\ ~AccessExpired(SelectSession)
  /\ clock > 0

C39_RemoteFirst ==
  [][/\ (localRepos' # localRepos =>
          (/\ regPc = "insert"
           /\ regExt \in remoteRegs
           /\ localRepos' = localRepos \cup {regExt}
           /\ regResult' = "registered"))
     /\ (localName' # localName =>
          (/\ updPc = "local"
           /\ remoteName[updReq.repoId] = updReq.name
           /\ localName' = [localName EXCEPT ![updReq.repoId] = updReq.name]
           /\ updResult' = "updated"))
     /\ (repoStatus' # repoStatus =>
          (/\ sweepPc = "local"
           /\ repoStatus' = [repoStatus EXCEPT ![sweepList[sweepIdx].repoId] =
                                sweepList[sweepIdx].status]))
     /\ ((regResult' \in {"session failed", "invalid", "remote failed"}
          /\ regResult' # regResult) =>
          localRepos' = localRepos)
     /\ ((updResult' \in {"refused", "remote failed"}
          /\ updResult' # updResult) =>
          localName' = localName)]_vars

\* a registration, an update and a sweep each wrote the local table after
\* the remote had accepted
C39_Witness ==
  /\ regResult = "registered"
  /\ localRepos # {}
  /\ localRepos \subseteq remoteRegs
  /\ updResult = "updated"
  /\ localName["r1"] = remoteName["r1"]
  /\ localName["r1"] # "n0"
  /\ Len(successes) > 0
  /\ repoStatus["r1"] # "active"

====
